---- MODULE Spec2Model ----
(***************************************************************************)
(* Model of the json-nebula core: the path engine (parsePath,             *)
(* evaluatePath), the entity extractor (extractFromCall), the edge         *)
(* deriver (calculateInterEdges) and the identity merge engine             *)
(* (computeNodeMappings, deepMergeWithTracking).                           *)
(*                                                                         *)
(* JavaScript strings are sequences of one-character strings, so that      *)
(* startsWith, join, split and the character scanner of parsePath are      *)
(* computed as the code computes them.  JSON values are tagged records:    *)
(*   [k |-> "undef"], [k |-> "null"], [k |-> "num", n |-> 1],              *)
(*   [k |-> "str", s |-> <<"a">>], [k |-> "func"],                         *)
(*   [k |-> "arr", ref |-> r, items |-> <<...>>],                          *)
(*   [k |-> "obj", keys |-> <<...>>, vals |-> <<...>>]                     *)
(* An array carries the identity of the array object (ref), because the    *)
(* merge engine compares leaves with !==, which is identity on arrays.     *)
(***************************************************************************)
EXTENDS Integers, Sequences, FiniteSets, TLC

VARIABLES pc, pathStr, parsed, ast, json, matches,
          calls, entityConfigs, relations, result,
          callsStore, mappingStore, page, history

\* the inputs and results of the engine functions
engineVars ==
  <<pc, pathStr, parsed, ast, json, matches, calls, entityConfigs, relations,
    result>>

\* the two stores, the page that listens to them, and the count of what has
\* happened so far
pageVars == <<callsStore, mappingStore, page, history>>

vars == <<engineVars, pageVars>>

----------------------------------------------------------------------------
(* Bounds *)

\* longest path string handed to parsePath
MaxPathLen == 4

\* longest token sequence handed to evaluatePath
MaxTokens == 3

----------------------------------------------------------------------------
(* JavaScript strings *)

Digits == <<"0", "1", "2", "3", "4", "5", "6", "7", "8", "9">>

DigitChars == {Digits[i] : i \in 1..10}

AlphaChars ==
  {"a", "b", "c", "d", "e", "f", "g", "h", "i", "j", "k", "l", "m", "n", "o",
   "p", "q", "r", "s", "t", "u", "v", "w", "x", "y", "z", "A", "B", "C", "D",
   "E", "F", "G", "H", "I", "J", "K", "L", "M", "N", "O", "P", "Q", "R", "S",
   "T", "U", "V", "W", "X", "Y", "Z", "_"}

IdentChars == AlphaChars \cup DigitChars \cup {"-"}

DigitVal(c) == (CHOOSE i \in 1..10 : Digits[i] = c) - 1

StartsWith(s, p) == Len(p) <= Len(s) /\ SubSeq(s, 1, Len(p)) = p

Slice(s, from) == SubSeq(s, from + 1, Len(s))

\* String.prototype.indexOf for one character; -1 when absent
IndexOf(s, c) ==
  IF \E i \in 1..Len(s) : s[i] = c
  THEN (CHOOSE i \in 1..Len(s) : s[i] = c /\ \A j \in 1..(i - 1) : s[j] # c) - 1
  ELSE -1

\* String.prototype.trim (the only whitespace of the model is the blank)
RECURSIVE TrimLeft(_)
TrimLeft(s) == IF s # <<>> /\ Head(s) = " " THEN TrimLeft(Tail(s)) ELSE s

RECURSIVE TrimRight(_)
TrimRight(s) ==
  IF s # <<>> /\ s[Len(s)] = " " THEN TrimRight(SubSeq(s, 1, Len(s) - 1)) ELSE s

Trim(s) == TrimRight(TrimLeft(s))

\* length of the longest prefix of s whose characters are all in cs
RECURSIVE PrefixLen(_, _)
PrefixLen(s, cs) ==
  IF s # <<>> /\ Head(s) \in cs THEN 1 + PrefixLen(Tail(s), cs) ELSE 0

\* parseInt(digits, 10)
RECURSIVE ParseInt(_)
ParseInt(ds) ==
  IF ds = <<>> THEN 0
  ELSE 10 * ParseInt(SubSeq(ds, 1, Len(ds) - 1)) + DigitVal(ds[Len(ds)])

\* String(n) for a non-negative integer
RECURSIVE NumToStr(_)
NumToStr(n) ==
  IF n < 10 THEN <<Digits[n + 1]>>
  ELSE NumToStr(n \div 10) \o <<Digits[(n % 10) + 1]>>

\* Array.prototype.join on an array of strings
RECURSIVE Join(_, _)
Join(parts, sep) ==
  IF parts = <<>> THEN <<>>
  ELSE IF Len(parts) = 1 THEN parts[1]
  ELSE parts[1] \o sep \o Join(Tail(parts), sep)

----------------------------------------------------------------------------
(* JSON values *)

Undefined == [k |-> "undef"]

Null == [k |-> "null"]

Num(n) == [k |-> "num", n |-> n]

Str(s) == [k |-> "str", s |-> s]

Arr(ref, items) == [k |-> "arr", ref |-> ref, items |-> items]

Obj(keys, vals) == [k |-> "obj", keys |-> keys, vals |-> vals]

\* a function value, as found on Object.prototype
Func == [k |-> "func"]

IsArray(v) == v.k = "arr"

\* typeof v === 'object' (null included, as in JavaScript)
TypeofObject(v) == v.k \in {"obj", "arr", "null"}

\* ToBoolean
Truthy(v) ==
  CASE v.k = "undef" -> FALSE
    [] v.k = "null" -> FALSE
    [] v.k = "num" -> v.n # 0
    [] v.k = "str" -> v.s # <<>>
    [] OTHER -> TRUE

HasOwn(o, name) == \E i \in 1..Len(o.keys) : o.keys[i] = name

OwnValue(o, name) == o.vals[CHOOSE i \in 1..Len(o.keys) : o.keys[i] = name]

\* property names every plain object inherits from Object.prototype
InheritedNames ==
  {<<"c", "o", "n", "s", "t", "r", "u", "c", "t", "o", "r">>,
   <<"t", "o", "S", "t", "r", "i", "n", "g">>,
   <<"v", "a", "l", "u", "e", "O", "f">>}

\* the string form of an array index below n, if name is one
IsIndexName(name, n) == \E i \in 0..(n - 1) : NumToStr(i) = name

lengthName == <<"l", "e", "n", "g", "t", "h">>

\* the `in` operator on an object: own and inherited properties
In(name, o) ==
  CASE o.k = "obj" -> HasOwn(o, name) \/ name \in InheritedNames
    [] o.k = "arr" -> IsIndexName(name, Len(o.items)) \/ name = lengthName
                        \/ name \in InheritedNames
    [] OTHER -> name \in InheritedNames

\* o[name] on a value that is neither null nor undefined
GetProp(o, name) ==
  CASE o.k = "obj" -> IF HasOwn(o, name) THEN OwnValue(o, name)
                      ELSE IF name \in InheritedNames THEN Func
                      ELSE Undefined
    [] o.k = "arr" -> IF IsIndexName(name, Len(o.items))
                        THEN o.items[ParseInt(name) + 1]
                      ELSE IF name = lengthName THEN Num(Len(o.items))
                      ELSE IF name \in InheritedNames THEN Func
                      ELSE Undefined
    [] o.k = "str" -> IF IsIndexName(name, Len(o.s))
                        THEN Str(<<o.s[ParseInt(name) + 1]>>)
                      ELSE IF name = lengthName THEN Num(Len(o.s))
                      ELSE IF name \in InheritedNames THEN Func
                      ELSE Undefined
    [] OTHER -> IF name \in InheritedNames THEN Func ELSE Undefined

----------------------------------------------------------------------------
(* Path parser *)

ROOT == [type |-> "ROOT"]

FIELD(name) == [type |-> "FIELD", value |-> name]

ALL_ITEMS == [type |-> "ALL_ITEMS"]

INDEX(n) == [type |-> "INDEX", index |-> n]

\* a thrown Error: the call returns nothing
Thrown == [thrown |-> TRUE]

\* a normal return
Returned(v) == [thrown |-> FALSE, value |-> v]

\* "consume trailing dot" after a numeric or field segment
ConsumeDot(remaining) ==
  IF StartsWith(remaining, <<".">>) /\ Len(remaining) > 1 THEN Slice(remaining, 1)
  ELSE IF remaining = <<".">> THEN <<>>
  ELSE remaining

RECURSIVE ParseSegments(_, _)

\* the bracket branch without its check for a missing ']': the scanner stops
\* and hands back the tokens read so far
ParseBracketUnchecked(remaining, tokens) ==
  LET closeIdx == IndexOf(remaining, "]")
      inside == SubSeq(remaining, 2, closeIdx)
      rest0 == Slice(remaining, closeIdx + 1)
      rest == IF StartsWith(rest0, <<".">>) THEN Slice(rest0, 1) ELSE rest0
  IN IF closeIdx = -1 THEN Returned(tokens)
     ELSE IF inside = <<"*">> THEN ParseSegments(rest, Append(tokens, ALL_ITEMS))
     ELSE IF inside # <<>> /\ PrefixLen(inside, DigitChars) = Len(inside)
       THEN ParseSegments(rest, Append(tokens, INDEX(ParseInt(inside))))
     ELSE Thrown

\* the bracket branch of the scanner: [*] or [n]
ParseBracket(remaining, tokens) ==
  LET closeIdx == IndexOf(remaining, "]")
      inside == SubSeq(remaining, 2, closeIdx)
      rest0 == Slice(remaining, closeIdx + 1)
      rest == IF StartsWith(rest0, <<".">>) THEN Slice(rest0, 1) ELSE rest0
  IN IF closeIdx = -1 THEN Thrown
     ELSE IF inside = <<"*">> THEN ParseSegments(rest, Append(tokens, ALL_ITEMS))
     ELSE IF inside # <<>> /\ PrefixLen(inside, DigitChars) = Len(inside)
       THEN ParseSegments(rest, Append(tokens, INDEX(ParseInt(inside))))
     ELSE Thrown

\* the while loop of parsePath
ParseSegments(remaining, tokens) ==
  IF remaining = <<>>
  THEN Returned(IF tokens = <<>> THEN <<ROOT>> ELSE tokens)
  ELSE IF Head(remaining) = "[" THEN ParseBracket(remaining, tokens)
  ELSE IF Head(remaining) \in DigitChars
    THEN LET n == PrefixLen(remaining, DigitChars)
         IN ParseSegments(ConsumeDot(Slice(remaining, n)),
                          Append(tokens, INDEX(ParseInt(SubSeq(remaining, 1, n)))))
  ELSE IF Head(remaining) \in AlphaChars
    THEN LET n == 1 + PrefixLen(Tail(remaining), IdentChars)
         IN ParseSegments(ConsumeDot(Slice(remaining, n)),
                          Append(tokens, FIELD(SubSeq(remaining, 1, n))))
  ELSE IF Head(remaining) = "." THEN ParseSegments(Slice(remaining, 1), tokens)
  ELSE Thrown

parsePath(str) ==
  LET trimmed == Trim(str)
      afterRoot == Slice(trimmed, 1)
  IN IF str = <<>> THEN Returned(<<ROOT>>)
     ELSE IF trimmed = <<"$">> \/ trimmed = <<>> THEN Returned(<<ROOT>>)
     ELSE IF StartsWith(trimmed, <<"$">>)
       THEN ParseSegments(IF StartsWith(afterRoot, <<".">>) THEN Slice(afterRoot, 1)
                          ELSE afterRoot, <<ROOT>>)
     ELSE ParseSegments(trimmed, <<>>)

----------------------------------------------------------------------------
(* Path evaluator *)

\* a segment of a concrete path: a field name or an array index
FieldSeg(name) == [s |-> name]

IndexSeg(i) == [i |-> i]

Match(value, path) == [value |-> value, path |-> path]

\* `name in value` raises a TypeError unless value is an object
InRaises(v) == v.k \notin {"obj", "arr", "func"}

\* case FIELD of the switch
FieldStep(token, m) ==
  IF Truthy(m.value) /\ TypeofObject(m.value) /\ ~IsArray(m.value)
  THEN IF InRaises(m.value) THEN Thrown
       ELSE IF In(token.value, m.value)
         THEN Returned(<<Match(GetProp(m.value, token.value),
                               Append(m.path, FieldSeg(token.value)))>>)
       ELSE Returned(<<>>)
  ELSE Returned(<<>>)

\* case ALL_ITEMS with the items numbered from one
AllItemsStepOneBased(m) ==
  IF IsArray(m.value)
  THEN Returned([i \in 1..Len(m.value.items) |->
                   Match(m.value.items[i], Append(m.path, IndexSeg(i)))])
  ELSE Returned(<<>>)

\* case ALL_ITEMS of the switch
AllItemsStep(m) ==
  IF IsArray(m.value)
  THEN Returned([i \in 1..Len(m.value.items) |->
                   Match(m.value.items[i], Append(m.path, IndexSeg(i - 1)))])
  ELSE Returned(<<>>)

\* case INDEX of the switch
IndexStep(token, m) ==
  IF IsArray(m.value) /\ token.index < Len(m.value.items)
  THEN Returned(<<Match(m.value.items[token.index + 1],
                        Append(m.path, IndexSeg(token.index)))>>)
  ELSE Returned(<<>>)

\* the switch of evaluatePath: the matches one token yields on one match
StepToken(token, m) ==
  CASE token.type = "ROOT" -> Returned(<<m>>)
    [] token.type = "FIELD" -> FieldStep(token, m)
    [] token.type = "ALL_ITEMS" -> AllItemsStep(m)
    [] token.type = "INDEX" -> IndexStep(token, m)

\* the inner for loop: one token applied to every current match, in order
RECURSIVE StepAll(_, _)
StepAll(token, results) ==
  IF results = <<>> THEN Returned(<<>>)
  ELSE LET first == StepToken(token, Head(results))
           rest == StepAll(token, Tail(results))
       IN IF first.thrown \/ rest.thrown THEN Thrown
          ELSE Returned(first.value \o rest.value)

\* the outer for loop over the tokens
RECURSIVE EvalTokens(_, _)
EvalTokens(tokens, results) ==
  IF tokens = <<>> THEN Returned(results)
  ELSE LET next == StepAll(Head(tokens), results)
       IN IF next.thrown THEN Thrown ELSE EvalTokens(Tail(tokens), next.value)

\* evaluatePath on a parsed path
evaluateAst(data, tokens) == EvalTokens(tokens, <<Match(data, <<>>)>>)

\* evaluatePath on a path string: the parse error propagates
evaluatePath(data, str) ==
  LET p == parsePath(str)
  IN IF p.thrown THEN Thrown ELSE evaluateAst(data, p.value)

\* evaluatePathSingle: the first matched value, or undefined
evaluatePathSingle(data, str) ==
  LET r == evaluatePath(data, str)
  IN IF r.thrown THEN Thrown
     ELSE Returned(IF Len(r.value) > 0 THEN r.value[1].value ELSE Undefined)

\* a depth that counts every token, the root token included
astDepthWithRoot(tokens) == Len(tokens)

\* getPathDepth on a parsed path
RECURSIVE astDepth(_)
astDepth(tokens) ==
  IF tokens = <<>> THEN 0
  ELSE (IF Head(tokens).type = "ROOT" THEN 0 ELSE 1) + astDepth(Tail(tokens))

\* getPathDepth on a path string
getPathDepth(str) ==
  LET p == parsePath(str)
  IN IF p.thrown THEN Thrown ELSE Returned(astDepth(p.value))

----------------------------------------------------------------------------
(* Declared-path bookkeeping: isParentPath, getParentPath *)

\* path.replace(/^\$\.?/, '')
StripRoot(path) ==
  IF StartsWith(path, <<"$", ".">>) THEN Slice(path, 2)
  ELSE IF StartsWith(path, <<"$">>) THEN Slice(path, 1)
  ELSE path

isParentPath(pathA, pathB) ==
  LET normA == IF pathA = <<"$">> THEN <<>> ELSE StripRoot(pathA)
      normB == IF pathB = <<"$">> THEN <<>> ELSE StripRoot(pathB)
      remainder == Slice(normB, Len(normA))
  IN IF normA = <<>> /\ normB # <<>> THEN TRUE
     ELSE IF StartsWith(normB, normA)
       THEN remainder = <<>> \/ StartsWith(remainder, <<".">>)
              \/ StartsWith(remainder, <<"[">>)
     ELSE FALSE

\* String.prototype.lastIndexOf for one character; -1 when absent
LastIndexOf(s, c) ==
  IF \E i \in 1..Len(s) : s[i] = c
  THEN (CHOOSE i \in 1..Len(s) : s[i] = c /\ \A j \in (i + 1)..Len(s) : s[j] # c) - 1
  ELSE -1

\* the parent of a declared path; <<>> stands for null
getParentPath(path) ==
  LET normalized == StripRoot(path)
      lastDot == LastIndexOf(normalized, ".")
      lastBracket == LastIndexOf(normalized, "[")
      cutPoint == IF lastDot > lastBracket THEN lastDot ELSE lastBracket
      parent == SubSeq(normalized, 1, cutPoint)
  IN IF path = <<>> \/ path = <<"$">> THEN <<>>
     ELSE IF normalized = <<>> THEN <<>>
     ELSE IF lastDot = -1 /\ lastBracket = -1 THEN <<"$">>
     ELSE IF parent = <<>> THEN <<"$">>
     ELSE parent

----------------------------------------------------------------------------
(* Extraction engine: extractFromCall *)

\* String(v), as a template literal or String() computes it
RECURSIVE ToStr(_)
ToStr(v) ==
  CASE v.k = "num" -> NumToStr(v.n)
    [] v.k = "str" -> v.s
    [] v.k = "null" -> <<"n", "u", "l", "l">>
    [] v.k = "undef" -> <<"u", "n", "d", "e", "f", "i", "n", "e", "d">>
    [] v.k = "obj" -> <<"[", "o", "b", "j", "e", "c", "t", " ", "O", "b", "j",
                        "e", "c", "t", "]">>
    [] v.k = "arr" ->
         Join([i \in 1..Len(v.items) |->
                 IF v.items[i].k \in {"null", "undef"} THEN <<>>
                 ELSE ToStr(v.items[i])], <<",">>)
    [] OTHER -> <<"f", "u", "n", "c", "t", "i", "o", "n">>

\* a concrete path segment as join() prints it
SegStr(seg) == IF "s" \in DOMAIN seg THEN seg.s ELSE NumToStr(seg.i)

\* extractPath.join('.')
PathKey(path) == Join([i \in 1..Len(path) |-> SegStr(path[i])], <<".">>)

idName == <<"i", "d">>

\* x || 'id' on a configured path
OrId(x) == IF x = <<>> THEN idName ELSE x

\* String.prototype.split on one character
RECURSIVE Split(_, _)
Split(s, c) ==
  LET i == IndexOf(s, c)
  IN IF i = -1 THEN <<s>>
     ELSE <<SubSeq(s, 1, i)>> \o Split(Slice(s, i + 1), c)

\* an insertion-ordered Map: a sequence of [key, val] entries
MapHas(map, key) == \E i \in 1..Len(map) : map[i].key = key

MapGet(map, key) == map[CHOOSE i \in 1..Len(map) : map[i].key = key].val

\* Map.prototype.set: an existing key keeps its place
MapSet(map, key, val) ==
  IF MapHas(map, key)
  THEN [i \in 1..Len(map) |->
          IF map[i].key = key THEN [key |-> key, val |-> val] ELSE map[i]]
  ELSE Append(map, [key |-> key, val |-> val])

\* no parent found: the null of parentEntityId
NoParent == <<>>

\* extractedByPath.get(parentEntityId.split('|')[1])?.length : the map is
\* asked for the piece of the entity id after a '|', and the entry found, an
\* object {entityId, pathKey}, for its length
KnownParentLength(extractedByPath, parentEntityId) ==
  LET pieces == Split(parentEntityId, "|")
  IN IF Len(pieces) < 2 THEN Undefined
     ELSE IF ~MapHas(extractedByPath, pieces[2]) THEN Undefined
     ELSE IF "length" \in DOMAIN MapGet(extractedByPath, pieces[2])
       THEN Num(MapGet(extractedByPath, pieces[2]).length)
     ELSE Undefined

\* n > v for a number n: false when v is undefined
GreaterThan(n, v) == v.k = "num" /\ n > v.n

\* the loop over extractedByPath that picks the parent of the entity at pathKey
RECURSIVE FindParent(_, _, _, _)
FindParent(extractedByPath, i, pathKey, parentEntityId) ==
  IF i > Len(extractedByPath) THEN parentEntityId
  ELSE LET existingPath == extractedByPath[i].key
           isPrefix == \/ StartsWith(pathKey, existingPath \o <<".">>)
                       \/ StartsWith(pathKey, existingPath \o <<"[">>)
           takes == \/ parentEntityId = NoParent
                    \/ GreaterThan(Len(existingPath),
                                   KnownParentLength(extractedByPath, parentEntityId))
       IN FindParent(extractedByPath, i + 1, pathKey,
                     IF isPrefix /\ takes THEN extractedByPath[i].val.entityId
                     ELSE parentEntityId)

\* entityConfigMap[entityType]; entity ids are unique in the mapping store
HasConfig(configs, entityType) ==
  \E i \in 1..Len(configs) : configs[i].id = entityType

ConfigOf(configs, entityType) ==
  configs[CHOOSE i \in 1..Len(configs) : configs[i].id = entityType]

\* the running state of one extractFromCall
ExtractState(entities, intraEdges, extractedByPath) ==
  [thrown |-> FALSE, entities |-> entities, intraEdges |-> intraEdges,
   extractedByPath |-> extractedByPath]

\* the body of the loop over results, for one match
ExtractMatch(st, callId, entityType, entityConfig, m) ==
  LET pk == evaluatePathSingle(m.value, OrId(entityConfig.pk))
      display == evaluatePathSingle(m.value, OrId(entityConfig.displayField))
      entityId == entityType \o <<"-">> \o ToStr(pk.value)
      pathKey == PathKey(m.path)
      parentEntityId == FindParent(st.extractedByPath, 1, pathKey, NoParent)
  IN IF ~Truthy(m.value) \/ ~TypeofObject(m.value) \/ IsArray(m.value) THEN st
     ELSE IF pk.thrown THEN Thrown
     ELSE IF pk.value.k \in {"undef", "null"} THEN st
     ELSE IF display.thrown THEN Thrown
     ELSE ExtractState(
            Append(st.entities,
                   [id |-> entityId, type |-> entityType, pk |-> pk.value,
                    data |-> m.value,
                    label |-> IF display.value.k # "undef" THEN ToStr(display.value)
                              ELSE ToStr(pk.value),
                    callId |-> callId, extractPath |-> pathKey]),
            IF parentEntityId # NoParent
            THEN Append(st.intraEdges,
                        [id |-> <<"i", "n", "t", "r", "a", "-">> \o parentEntityId
                                  \o <<"-">> \o entityId,
                         source |-> parentEntityId, target |-> entityId,
                         edgeType |-> "intra"])
            ELSE st.intraEdges,
            MapSet(st.extractedByPath, pathKey,
                   [entityId |-> entityId, pathKey |-> pathKey]))

\* the loop over the results of one rule
RECURSIVE ExtractMatches(_, _, _, _, _)
ExtractMatches(st, callId, entityType, entityConfig, results) ==
  IF st.thrown \/ results = <<>> THEN st
  ELSE ExtractMatches(ExtractMatch(st, callId, entityType, entityConfig, Head(results)),
                      callId, entityType, entityConfig, Tail(results))

\* the loop body raising on a rule whose entity type has no config
ExtractRuleStrict(st, callId, data, extraction, configs) ==
  LET results == evaluatePath(data, extraction.path)
  IN IF ~HasConfig(configs, extraction.entity) THEN Thrown
     ELSE IF results.thrown THEN Thrown
     ELSE ExtractMatches(st, callId, extraction.entity,
                         ConfigOf(configs, extraction.entity), results.value)

\* the body of the loop over sortedExtractions, for one rule
ExtractRule(st, callId, data, extraction, configs) ==
  LET results == evaluatePath(data, extraction.path)
  IN IF ~HasConfig(configs, extraction.entity) THEN st
     ELSE IF results.thrown THEN Thrown
     ELSE ExtractMatches(st, callId, extraction.entity,
                         ConfigOf(configs, extraction.entity), results.value)

RECURSIVE ExtractRules(_, _, _, _, _)
ExtractRules(st, callId, data, extractions, configs) ==
  IF st.thrown \/ extractions = <<>> THEN st
  ELSE ExtractRules(ExtractRule(st, callId, data, Head(extractions), configs),
                    callId, data, Tail(extractions), configs)

\* .filter(ext => ext.entity && ext.path)
RECURSIVE FilterRules(_)
FilterRules(extractions) ==
  IF extractions = <<>> THEN <<>>
  ELSE (IF Head(extractions).entity # <<>> /\ Head(extractions).path # <<>>
        THEN <<Head(extractions)>> ELSE <<>>) \o FilterRules(Tail(extractions))

\* the comparator needs the depth of every rule once two rules are compared
DepthRaises(extractions) ==
  Len(extractions) >= 2 /\
  \E i \in 1..Len(extractions) : getPathDepth(extractions[i].path).thrown

\* the stable sort by ascending getPathDepth
RECURSIVE InsertByDepth(_, _)
InsertByDepth(sorted, ext) ==
  IF sorted = <<>> THEN <<ext>>
  ELSE IF getPathDepth(sorted[Len(sorted)].path).value
            <= getPathDepth(ext.path).value
    THEN Append(sorted, ext)
  ELSE Append(InsertByDepth(SubSeq(sorted, 1, Len(sorted) - 1), ext),
              sorted[Len(sorted)])

RECURSIVE SortByDepth(_)
SortByDepth(extractions) ==
  IF extractions = <<>> THEN <<>>
  ELSE InsertByDepth(SortByDepth(SubSeq(extractions, 1, Len(extractions) - 1)),
                     extractions[Len(extractions)])

extractFromCall(callId, data, extractions, configs) ==
  LET kept == FilterRules(extractions)
  IN IF DepthRaises(kept) THEN Thrown
     ELSE ExtractRules(ExtractState(<<>>, <<>>, <<>>), callId, data,
                       SortByDepth(kept), configs)

----------------------------------------------------------------------------
(* Path extractor: extractWithContext *)

\* the matches of a path that are objects or arrays
RECURSIVE KeepObjects(_)
KeepObjects(results) ==
  IF results = <<>> THEN <<>>
  ELSE (IF Truthy(Head(results).value) /\ TypeofObject(Head(results).value)
        THEN <<Head(results)>> ELSE <<>>) \o KeepObjects(Tail(results))

extractObjects(data, path) ==
  LET results == evaluatePath(data, path)
  IN IF results.thrown THEN Thrown ELSE Returned(KeepObjects(results.value))

isExtractPathParent(extractPathA, extractPathB) ==
  /\ Len(extractPathA) < Len(extractPathB)
  /\ \A i \in 1..Len(extractPathA) : extractPathA[i] = extractPathB[i]

\* `${entity}:${pk}`
getParentPathKey(entity, pk) == entity \o <<":">> \o ToStr(pk)

\* extractedByPath.get(getParentPathKey(parentEntity, parentPk))?.length : the
\* entry found is an object {entity, pk}
ContextParentLength(extractedByPath, parentEntity, parentPk) ==
  LET key == getParentPathKey(parentEntity, parentPk)
  IN IF ~MapHas(extractedByPath, key) THEN Undefined
     ELSE IF "length" \in DOMAIN MapGet(extractedByPath, key)
       THEN Num(MapGet(extractedByPath, key).length)
     ELSE Undefined

\* the loop over extractedByPath; parent is [entity, pk], entity <<>> for null
RECURSIVE FindContextParent(_, _, _, _)
FindContextParent(extractedByPath, i, pathKey, parent) ==
  IF i > Len(extractedByPath) THEN parent
  ELSE LET existingPathKey == extractedByPath[i].key
           isPrefix == StartsWith(pathKey, existingPathKey) /\ pathKey # existingPathKey
           takes == \/ parent.entity = NoParent
                    \/ GreaterThan(Len(existingPathKey),
                                   ContextParentLength(extractedByPath, parent.entity,
                                                       parent.pk))
       IN FindContextParent(extractedByPath, i + 1, pathKey,
                            IF isPrefix /\ takes THEN extractedByPath[i].val ELSE parent)

\* results.find(r => r.entity === entity && isExtractPathParent(...))
HasParentResult(results, entity, extractPath) ==
  \E i \in 1..Len(results) :
    results[i].entity = entity /\ isExtractPathParent(results[i].extractPath, extractPath)

ParentResult(results, entity, extractPath) ==
  results[CHOOSE i \in 1..Len(results) :
            /\ results[i].entity = entity
            /\ isExtractPathParent(results[i].extractPath, extractPath)
            /\ \A j \in 1..(i - 1) :
                 ~(results[j].entity = entity
                   /\ isExtractPathParent(results[j].extractPath, extractPath))]

\* the second lookup, by the structure of the declared paths
RECURSIVE FindStructuralParent(_, _, _, _, _)
FindStructuralParent(sortedExtractions, i, results, path, extractPath) ==
  IF i > Len(sortedExtractions) THEN [entity |-> NoParent, pk |-> Null]
  ELSE LET other == sortedExtractions[i]
       IN IF (other.path = getParentPath(path) \/ isParentPath(other.path, path))
               /\ HasParentResult(results, other.entity, extractPath)
          THEN [entity |-> ParentResult(results, other.entity, extractPath).entity,
                pk |-> ParentResult(results, other.entity, extractPath).pk]
          ELSE FindStructuralParent(sortedExtractions, i + 1, results, path, extractPath)

ContextState(results, extractedByPath) ==
  [thrown |-> FALSE, results |-> results, extractedByPath |-> extractedByPath]

\* the body of the loop over objects, for one match
ContextMatch(st, sortedExtractions, extraction, entityConfig, m) ==
  LET pk == evaluatePathSingle(m.value, OrId(entityConfig.pk))
      pathKey == PathKey(m.path)
      byKey == FindContextParent(st.extractedByPath, 1, pathKey,
                                 [entity |-> NoParent, pk |-> Null])
      parent == IF byKey.entity # NoParent THEN byKey
                ELSE IF getParentPath(extraction.path) # <<>>
                  THEN FindStructuralParent(sortedExtractions, 1, st.results,
                                            extraction.path, m.path)
                ELSE byKey
  IN IF pk.thrown THEN Thrown
     ELSE IF pk.value.k \in {"undef", "null"} THEN st
     ELSE ContextState(
            Append(st.results,
                   [entity |-> extraction.entity, data |-> m.value, pk |-> pk.value,
                    path |-> extraction.path, extractPath |-> m.path,
                    parentEntity |-> parent.entity, parentPk |-> parent.pk]),
            MapSet(st.extractedByPath, pathKey,
                   [entity |-> extraction.entity, pk |-> pk.value]))

RECURSIVE ContextMatches(_, _, _, _, _)
ContextMatches(st, sortedExtractions, extraction, entityConfig, objects) ==
  IF st.thrown \/ objects = <<>> THEN st
  ELSE ContextMatches(
         ContextMatch(st, sortedExtractions, extraction, entityConfig, Head(objects)),
         sortedExtractions, extraction, entityConfig, Tail(objects))

\* the body of the loop over sortedExtractions, for one rule
ContextRule(st, sortedExtractions, data, extraction, configs) ==
  LET objects == extractObjects(data, extraction.path)
  IN IF ~HasConfig(configs, extraction.entity) THEN st
     ELSE IF objects.thrown THEN Thrown
     ELSE ContextMatches(st, sortedExtractions, extraction,
                         ConfigOf(configs, extraction.entity), objects.value)

RECURSIVE ContextRules(_, _, _, _, _)
ContextRules(st, sortedExtractions, data, i, configs) ==
  IF st.thrown \/ i > Len(sortedExtractions) THEN st
  ELSE ContextRules(ContextRule(st, sortedExtractions, data, sortedExtractions[i], configs),
                    sortedExtractions, data, i + 1, configs)

extractWithContext(data, extractions, configs) ==
  IF extractions = <<>> THEN ContextState(<<>>, <<>>)
  ELSE IF DepthRaises(extractions) THEN Thrown
  ELSE ContextRules(ContextState(<<>>, <<>>), SortByDepth(extractions), data, 1, configs)

----------------------------------------------------------------------------
(* Identity merge engine: deepMergeWithTracking, computeNodeMappings *)

\* a === b; arrays are equal only when they are the same array object
StrictEq(a, b) ==
  /\ a.k = b.k
  /\ CASE a.k = "num" -> a.n = b.n
       [] a.k = "str" -> a.s = b.s
       [] a.k = "arr" -> a.ref = b.ref
       [] a.k = "obj" -> FALSE
       [] OTHER -> TRUE

\* o[key] = val on a plain object
ObjSet(o, key, val) ==
  IF HasOwn(o, key)
  THEN Obj(o.keys, [i \in 1..Len(o.keys) |-> IF o.keys[i] = key THEN val ELSE o.vals[i]])
  ELSE Obj(Append(o.keys, key), Append(o.vals, val))

EmptyObj == Obj(<<>>, <<>>)

\* map[key].push(item), the list being created on first use
MapPush(map, key, item) ==
  MapSet(map, key, IF MapHas(map, key) THEN Append(MapGet(map, key), item) ELSE <<item>>)

getNestedValueFrom(current, parts) ==
  LET Walk[i \in 0..Len(parts)] ==
        IF i = 0 THEN current
        ELSE IF Walk[i - 1].k \in {"null", "undef"} THEN Undefined
        ELSE GetProp(Walk[i - 1], parts[i])
  IN Walk[Len(parts)]

getNestedValue(obj, path) ==
  IF ~Truthy(obj) \/ path = <<>> THEN Undefined
  ELSE getNestedValueFrom(obj, Split(path, "."))

\* resolvePkValue without the test for a missing component: join prints
\* null and undefined as the empty string
resolvePkValueLax(obj, pkField) ==
  LET parts == Split(pkField, "+")
      values == [i \in 1..Len(parts) |-> getNestedValue(obj, Trim(parts[i]))]
  IN IF ~Truthy(obj) \/ pkField = <<>> THEN Undefined
     ELSE IF IndexOf(pkField, "+") = -1 THEN getNestedValue(obj, pkField)
     ELSE Str(Join([i \in 1..Len(values) |->
                      IF values[i].k \in {"undef", "null"} THEN <<>>
                      ELSE ToStr(values[i])], <<"|">>))

resolvePkValue(obj, pkField) ==
  LET parts == Split(pkField, "+")
      values == [i \in 1..Len(parts) |-> getNestedValue(obj, Trim(parts[i]))]
  IN IF ~Truthy(obj) \/ pkField = <<>> THEN Undefined
     ELSE IF IndexOf(pkField, "+") = -1 THEN getNestedValue(obj, pkField)
     ELSE IF \E i \in 1..Len(values) : values[i].k \in {"undef", "null"} THEN Undefined
     ELSE Str(Join([i \in 1..Len(values) |-> ToStr(values[i])], <<"|">>))

protoName == <<"_", "_", "p", "r", "o", "t", "o", "_", "_">>

\* the accumulators one merge threads through deepMergeWithTracking, and the
\* properties the page has added to Object.prototype so far (proto); onProto
\* says that target is Object.prototype itself
MergeState(target, conflicts, propertySources, proto, onProto) ==
  [thrown |-> FALSE, target |-> target, conflicts |-> conflicts,
   propertySources |-> propertySources, proto |-> proto, onProto |-> onProto]

\* what a plain object without an own property `name` reads at [name]
Inherited(st, name) ==
  LET prototype == IF st.onProto THEN st.target ELSE st.proto
  IN IF name = protoName THEN prototype
     ELSE IF HasOwn(prototype, name) THEN OwnValue(prototype, name)
     ELSE IF name \in InheritedNames THEN Func
     ELSE Undefined

\* target[key]; the accessor __proto__ gives the prototype of target
Held(st, key) ==
  IF key = protoName THEN (IF st.onProto THEN Null ELSE st.proto)
  ELSE IF HasOwn(st.target, key) THEN OwnValue(st.target, key)
  ELSE Inherited(st, key)

\* target[key] = value; the accessor __proto__ creates no own property (a
\* number or a string is ignored by it)
Assigned(st, key, value) ==
  IF key = protoName THEN st.target ELSE ObjSet(st.target, key, value)

\* acc[key].push(item) on a plain object acc = {}: when key is not an own key
\* and acc inherits a truthy value at key, no list is created, and push is
\* not a function unless that value is an array
PushRaises(st, acc, key) ==
  ~MapHas(acc, key) /\ Truthy(Inherited(st, key)) /\ ~IsArray(Inherited(st, key))

\* the item goes to an array acc inherits at key, and acc gets no own list
PushLost(st, acc, key) == ~MapHas(acc, key) /\ IsArray(Inherited(st, key))

\* the source is tracked only when its value differs from the last one tracked
TrackSourceDistinct(propertySources, fullPath, value, sourceInfo) ==
  IF MapHas(propertySources, fullPath)
       /\ StrictEq(MapGet(propertySources, fullPath)[Len(MapGet(propertySources, fullPath))].value,
                   value)
  THEN propertySources
  ELSE MapPush(propertySources, fullPath,
               [callId |-> sourceInfo.callId, callName |-> sourceInfo.callName,
                value |-> value, sourceIndex |-> sourceInfo.sourceIndex])

\* propertySources[fullPath].push({ callId, callName, value, sourceIndex })
TrackSource(propertySources, fullPath, value, sourceInfo) ==
  MapPush(propertySources, fullPath,
          [callId |-> sourceInfo.callId, callName |-> sourceInfo.callName,
           value |-> value, sourceIndex |-> sourceInfo.sourceIndex])

callIdName == <<"c", "a", "l", "l", "I", "d">>

callNameName == <<"c", "a", "l", "l", "N", "a", "m", "e">>

sourceIndexName == <<"s", "o", "u", "r", "c", "e", "I", "n", "d", "e", "x">>

\* { callId, callName, oldValue, newValue, sourceIndex } as a value of the heap
ConflictObj(r) ==
  Obj(<<callIdName, callNameName, <<"o", "l", "d", "V", "a", "l", "u", "e">>,
        <<"n", "e", "w", "V", "a", "l", "u", "e">>, sourceIndexName>>,
      <<Str(r.callId), Str(r.callName), r.oldValue, r.newValue, Num(r.sourceIndex)>>)

\* { callId, callName, value, sourceIndex } as a value of the heap
SourceObj(value, sourceInfo) ==
  Obj(<<callIdName, callNameName, <<"v", "a", "l", "u", "e">>, sourceIndexName>>,
      <<Str(sourceInfo.callId), Str(sourceInfo.callName), value,
        Num(sourceInfo.sourceIndex)>>)

\* the records that conflicts[fullPath].push and propertySources[fullPath].push
\* append to the array the accumulators inherit at fullPath
Pushed(st, fullPath, differs, conflict, value, sourceInfo) ==
  (IF differs /\ PushLost(st, st.conflicts, fullPath) THEN <<ConflictObj(conflict)>>
   ELSE <<>>)
  \o (IF PushLost(st, st.propertySources, fullPath) THEN <<SourceObj(value, sourceInfo)>>
      ELSE <<>>)

\* the state after the two pushes and target[key] = value; an array the
\* accumulators inherit keeps its identity (ref) and gains the pushed records
LeafWritten(st, key, value, fullPath, conflicts, propertySources, pushed) ==
  LET prototype == IF st.onProto THEN st.target ELSE st.proto
      grown == IF pushed = <<>> THEN prototype
               ELSE ObjSet(prototype, fullPath,
                           Arr(OwnValue(prototype, fullPath).ref,
                               OwnValue(prototype, fullPath).items \o pushed))
  IN IF st.onProto
     THEN MergeState(Assigned([st EXCEPT !.target = grown], key, value), conflicts,
                     propertySources, st.proto, TRUE)
     ELSE MergeState(Assigned(st, key, value), conflicts, propertySources, grown, FALSE)

\* the else branch with the two values of the conflict record exchanged
MergeLeafSwapped(st, key, value, sourceInfo, fullPath) ==
  LET old == Held(st, key)
      differs == old.k # "undef" /\ ~StrictEq(old, value)
      conflict == [callId |-> sourceInfo.callId, callName |-> sourceInfo.callName,
                   oldValue |-> value, newValue |-> old,
                   sourceIndex |-> sourceInfo.sourceIndex]
  IN IF \/ differs /\ PushRaises(st, st.conflicts, fullPath)
        \/ PushRaises(st, st.propertySources, fullPath)
     THEN Thrown
     ELSE LeafWritten(
       st, key, value, fullPath,
       IF differs /\ ~PushLost(st, st.conflicts, fullPath)
       THEN MapPush(st.conflicts, fullPath, conflict)
       ELSE st.conflicts,
       IF PushLost(st, st.propertySources, fullPath) THEN st.propertySources
       ELSE TrackSource(st.propertySources, fullPath, value, sourceInfo),
       Pushed(st, fullPath, differs, conflict, value, sourceInfo))

\* the else branch: a primitive or an array is written at target[key]
MergeLeaf(st, key, value, sourceInfo, fullPath) ==
  LET old == Held(st, key)
      differs == old.k # "undef" /\ ~StrictEq(old, value)
      conflict == [callId |-> sourceInfo.callId, callName |-> sourceInfo.callName,
                   oldValue |-> old, newValue |-> value,
                   sourceIndex |-> sourceInfo.sourceIndex]
  IN IF \/ differs /\ PushRaises(st, st.conflicts, fullPath)
        \/ PushRaises(st, st.propertySources, fullPath)
     THEN Thrown
     ELSE LeafWritten(
       st, key, value, fullPath,
       IF differs /\ ~PushLost(st, st.conflicts, fullPath)
       THEN MapPush(st.conflicts, fullPath, conflict)
       ELSE st.conflicts,
       IF PushLost(st, st.propertySources, fullPath) THEN st.propertySources
       ELSE TrackSource(st.propertySources, fullPath, value, sourceInfo),
       Pushed(st, fullPath, differs, conflict, value, sourceInfo))

RECURSIVE deepMergeWithTracking(_, _, _, _), MergeEntries(_, _, _, _, _)

\* the state after the recursive call has returned sub: the object merged
\* into is target[key], be it an own property of target, Object.prototype
\* (key __proto__) or an object target inherits from Object.prototype
AfterNested(st, key, sub, replaced) ==
  IF sub.thrown THEN Thrown
  ELSE IF st.onProto
    THEN MergeState(ObjSet(sub.proto, key, sub.target), sub.conflicts,
                    sub.propertySources, st.proto, TRUE)
  ELSE IF key = protoName
    THEN MergeState(st.target, sub.conflicts, sub.propertySources, sub.target, FALSE)
  ELSE IF replaced \/ HasOwn(st.target, key)
    THEN MergeState(ObjSet(st.target, key, sub.target), sub.conflicts,
                    sub.propertySources, sub.proto, FALSE)
  ELSE MergeState(st.target, sub.conflicts, sub.propertySources,
                  ObjSet(sub.proto, key, sub.target), FALSE)

\* the body of the loop over Object.entries(source), for entry i
MergeEntry(st, source, i, sourceInfo, path) ==
  LET key == source.keys[i]
      value == source.vals[i]
      fullPath == IF path # <<>> THEN path \o <<".">> \o key ELSE key
      held == Held(st, key)
      replaced == ~Truthy(held) \/ ~TypeofObject(held) \/ IsArray(held)
      nested == IF replaced THEN EmptyObj ELSE held
      entered ==
        IF ~st.onProto /\ key = protoName
        THEN MergeState(nested, st.conflicts, st.propertySources, st.proto, TRUE)
        ELSE MergeState(nested, st.conflicts, st.propertySources,
                        IF st.onProto THEN ObjSet(st.target, key, nested) ELSE st.proto,
                        FALSE)
  IN IF value.k = "obj"
     THEN IF st.onProto /\ key = protoName THEN Thrown
          ELSE AfterNested(st, key,
                           deepMergeWithTracking(entered, value, sourceInfo, fullPath),
                           replaced)
     ELSE MergeLeaf(st, key, value, sourceInfo, fullPath)

MergeEntries(st, source, i, sourceInfo, path) ==
  IF st.thrown \/ i > Len(source.keys) THEN st
  ELSE MergeEntries(MergeEntry(st, source, i, sourceInfo, path), source, i + 1,
                    sourceInfo, path)

deepMergeWithTracking(st, source, sourceInfo, path) ==
  MergeEntries(st, source, 1, sourceInfo, path)

\* `${call.id}:${['$', ...pathParts].join('.')}`
NodeId(callId, pathParts) ==
  callId \o <<":">>
    \o Join(<<<<"$">>>> \o [i \in 1..Len(pathParts) |-> SegStr(pathParts[i])], <<".">>)

\* x || y || z on values and strings, then String()
DisplayLabel(data, displayField, entityType) ==
  LET displayValue == getNestedValue(data, OrId(displayField))
      id == GetProp(data, idName)
  IN IF Truthy(displayValue) THEN ToStr(displayValue)
     ELSE IF Truthy(id) THEN ToStr(id)
     ELSE entityType

MappingState(mappings, entityGroups) ==
  [thrown |-> FALSE, mappings |-> mappings, entityGroups |-> entityGroups]

\* first pass, the body of the loop over results, for one match
CollectMatch(st, call, extraction, entityConfig, m) ==
  LET nodeId == NodeId(call.id, m.path)
      pkValue == resolvePkValue(m.value, OrId(entityConfig.pk))
  IN IF ~Truthy(m.value) \/ ~TypeofObject(m.value) THEN st
     ELSE IF IsArray(m.value)
       THEN MappingState(
              MapSet(st.mappings, nodeId,
                     [entityType |-> extraction.entity,
                      entityLabel |-> (IF entityConfig.label # <<>> THEN entityConfig.label
                                       ELSE extraction.entity)
                                        \o <<" ", "(">> \o NumToStr(Len(m.value.items))
                                        \o <<")">>,
                      data |-> m.value]),
              st.entityGroups)
     ELSE IF pkValue.k \notin {"undef", "null"}
       THEN MappingState(
              st.mappings,
              MapPush(st.entityGroups, extraction.entity \o <<":">> \o ToStr(pkValue),
                      [nodeId |-> nodeId, data |-> m.value, entityConfig |-> entityConfig,
                       entityType |-> extraction.entity]))
     ELSE MappingState(
            MapSet(st.mappings, nodeId,
                   [entityType |-> extraction.entity,
                    entityLabel |-> DisplayLabel(m.value, entityConfig.displayField,
                                                 extraction.entity),
                    data |-> m.value]),
            st.entityGroups)

RECURSIVE CollectMatches(_, _, _, _, _)
CollectMatches(st, call, extraction, entityConfig, results) ==
  IF results = <<>> THEN st
  ELSE CollectMatches(CollectMatch(st, call, extraction, entityConfig, Head(results)),
                      call, extraction, entityConfig, Tail(results))

\* first pass, the body of the loop over call.extractions, for one rule
CollectRule(st, call, extraction, configs) ==
  LET results == evaluatePath(call.parsedJson, extraction.path)
  IN IF extraction.entity = <<>> \/ extraction.path = <<>> THEN st
     ELSE IF ~HasConfig(configs, extraction.entity) THEN st
     ELSE IF results.thrown THEN Thrown
     ELSE CollectMatches(st, call, extraction, ConfigOf(configs, extraction.entity),
                         results.value)

RECURSIVE CollectRules(_, _, _, _)
CollectRules(st, call, extractions, configs) ==
  IF st.thrown \/ extractions = <<>> THEN st
  ELSE CollectRules(CollectRule(st, call, Head(extractions), configs), call,
                    Tail(extractions), configs)

\* first pass, the loop over calls
RECURSIVE CollectCalls(_, _, _)
CollectCalls(st, callList, configs) ==
  IF st.thrown \/ callList = <<>> THEN st
  ELSE CollectCalls(
         IF ~Truthy(Head(callList).parsedJson) THEN st
         ELSE CollectRules(st, Head(callList), Head(callList).extractions, configs),
         Tail(callList), configs)

\* item.nodeId.split(':')[0]
CallIdOf(nodeId) == Split(nodeId, ":")[1]

\* calls.find(c => c.id === callId)?.name || callId
CallNameOf(callList, callId) ==
  IF \E i \in 1..Len(callList) : callList[i].id = callId /\ callList[i].name # <<>>
       /\ \A j \in 1..(i - 1) : callList[j].id # callId
  THEN callList[CHOOSE i \in 1..Len(callList) :
                  callList[i].id = callId /\ \A j \in 1..(i - 1) : callList[j].id # callId].name
  ELSE callId

\* second pass, the loop over the items of one group
RECURSIVE MergeGroupItems(_, _, _, _, _, _)
MergeGroupItems(group, i, callList, merge, sources, mergedNodes) ==
  IF merge.thrown \/ i > Len(group)
  THEN [merge |-> merge, sources |-> sources, mergedNodes |-> mergedNodes]
  ELSE LET item == group[i]
           callId == CallIdOf(item.nodeId)
           callName == CallNameOf(callList, callId)
       IN MergeGroupItems(
            group, i + 1, callList,
            deepMergeWithTracking(merge, item.data,
                                  [callId |-> callId, callName |-> callName,
                                   sourceIndex |-> i - 1], <<>>),
            Append(sources, [callId |-> callId, callName |-> callName,
                             nodeId |-> item.nodeId, data |-> item.data]),
            IF i > 1 THEN MapSet(mergedNodes, item.nodeId, group[1].nodeId)
            ELSE mergedNodes)

\* second pass, the loop over entityGroups
RECURSIVE MergeGroups(_, _, _, _, _, _)
MergeGroups(groups, g, callList, proto, mappings, mergedNodes) ==
  IF g > Len(groups)
  THEN [thrown |-> FALSE, mappings |-> mappings, mergedNodes |-> mergedNodes,
        proto |-> proto]
  ELSE LET group == groups[g].val
           canonical == group[1]
           done == MergeGroupItems(group, 1, callList,
                                   MergeState(EmptyObj, <<>>, <<>>, proto, FALSE),
                                   <<>>, mergedNodes)
       IN IF done.merge.thrown THEN Thrown
          ELSE MergeGroups(
            groups, g + 1, callList, done.merge.proto,
            MapSet(mappings, canonical.nodeId,
                   [entityType |-> canonical.entityType,
                    entityLabel |-> DisplayLabel(canonical.data,
                                                 canonical.entityConfig.displayField,
                                                 canonical.entityType),
                    data |-> done.merge.target,
                    sources |-> done.sources,
                    propertySources |-> done.merge.propertySources,
                    conflicts |-> done.merge.conflicts,
                    sourceCount |-> Len(group),
                    hasConflicts |-> Len(done.merge.conflicts) > 0]),
            done.mergedNodes)

\* proto: the properties added to Object.prototype before the call; the
\* record returned carries those it holds after the call
computeNodeMappings(callList, configs, proto) ==
  LET collected == CollectCalls(MappingState(<<>>, <<>>), callList, configs)
      merged == MergeGroups(collected.entityGroups, 1, callList, proto,
                            collected.mappings, <<>>)
  IN IF collected.thrown THEN Thrown ELSE merged

----------------------------------------------------------------------------
(* Extraction engine: calculateInterEdges, extractAllEntities *)

\* the running state of calculateInterEdges
EdgeState(edges, edgeSet) == [thrown |-> FALSE, edges |-> edges, edgeSet |-> edgeSet]

\* entityIndex: Map<entityType, Map<String(pk), entityId>>
RECURSIVE BuildEntityIndex(_, _)
BuildEntityIndex(entities, index) ==
  IF entities = <<>> THEN index
  ELSE LET entity == Head(entities)
           inner == IF MapHas(index, entity.type) THEN MapGet(index, entity.type) ELSE <<>>
       IN BuildEntityIndex(
            Tail(entities),
            MapSet(index, entity.type, MapSet(inner, ToStr(entity.pk), entity.id)))

\* every entity is a candidate, whatever its type
ToEntitiesAny(entities, toType) == entities

\* entities.filter(e => e.type === toType)
ToEntities(entities, toType) == SelectSeq(entities, LAMBDA e : e.type = toType)

\* the loop body without the edgeSet test: every computed edge is pushed
EdgeForEntityUndeduped(st, fromEntities, toEntity, toFk) ==
  LET fkValue == evaluatePathSingle(toEntity.data, toFk)
      key == ToStr(fkValue.value)
      fromEntityId == MapGet(fromEntities, key)
      edgeId == <<"i", "n", "t", "e", "r", "-">> \o fromEntityId \o <<"-">> \o toEntity.id
  IN IF fkValue.thrown THEN Thrown
     ELSE IF fkValue.value.k \in {"undef", "null"} THEN st
     ELSE IF ~MapHas(fromEntities, key) \/ fromEntityId = <<>> THEN st
     ELSE EdgeState(
            Append(st.edges, [id |-> edgeId, source |-> fromEntityId,
                              target |-> toEntity.id, edgeType |-> "inter"]),
            st.edgeSet \cup {edgeId})

\* the body of the loop over toEntities, for one entity
EdgeForEntity(st, fromEntities, toEntity, toFk) ==
  LET fkValue == evaluatePathSingle(toEntity.data, toFk)
      key == ToStr(fkValue.value)
      fromEntityId == MapGet(fromEntities, key)
      edgeId == <<"i", "n", "t", "e", "r", "-">> \o fromEntityId \o <<"-">> \o toEntity.id
  IN IF fkValue.thrown THEN Thrown
     ELSE IF fkValue.value.k \in {"undef", "null"} THEN st
     ELSE IF ~MapHas(fromEntities, key) \/ fromEntityId = <<>> THEN st
     ELSE IF edgeId \in st.edgeSet THEN st
     ELSE EdgeState(
            Append(st.edges, [id |-> edgeId, source |-> fromEntityId,
                              target |-> toEntity.id, edgeType |-> "inter"]),
            st.edgeSet \cup {edgeId})

RECURSIVE EdgesForEntities(_, _, _, _)
EdgesForEntities(st, fromEntities, toEntities, toFk) ==
  IF st.thrown \/ toEntities = <<>> THEN st
  ELSE EdgesForEntities(EdgeForEntity(st, fromEntities, Head(toEntities), toFk),
                        fromEntities, Tail(toEntities), toFk)

\* the body of the loop over relations, for one relation
EdgesForRelation(st, entities, entityIndex, relation) ==
  LET toEntities == ToEntities(entities, relation.to)
  IN IF relation.toFk = <<>> THEN st
     ELSE IF ~MapHas(entityIndex, relation.from) \/ toEntities = <<>> THEN st
     ELSE EdgesForEntities(st, MapGet(entityIndex, relation.from), toEntities,
                           relation.toFk)

RECURSIVE EdgesForRelations(_, _, _, _)
EdgesForRelations(st, entities, entityIndex, rels) ==
  IF st.thrown \/ rels = <<>> THEN st
  ELSE EdgesForRelations(EdgesForRelation(st, entities, entityIndex, Head(rels)),
                         entities, entityIndex, Tail(rels))

calculateInterEdges(entities, rels, configs) ==
  EdgesForRelations(EdgeState(<<>>, {}), entities, BuildEntityIndex(entities, <<>>), rels)

\* allEntities.push(...entities); allIntraEdges.push(...intraEdges)
PushAll(st, one) ==
  IF one.thrown THEN Thrown
  ELSE ExtractState(st.entities \o one.entities, st.intraEdges \o one.intraEdges, <<>>)

\* the body of the loop of extractAllEntities, for one call
ExtractCall(st, call, configs) ==
  IF ~Truthy(call.parsedJson) \/ call.extractions = <<>> THEN st
  ELSE PushAll(st, extractFromCall(call.id, call.parsedJson, call.extractions, configs))

\* the loop of extractAllEntities over the calls
RECURSIVE ExtractCalls(_, _, _)
ExtractCalls(st, callList, configs) ==
  IF st.thrown \/ callList = <<>> THEN st
  ELSE ExtractCalls(ExtractCall(st, Head(callList), configs), Tail(callList), configs)

\* the returned object { entities, intraEdges, interEdges }
AllResult(all, inter) ==
  IF inter.thrown THEN Thrown
  ELSE [thrown |-> FALSE, entities |-> all.entities, intraEdges |-> all.intraEdges,
        interEdges |-> inter.edges]

\* the tail of extractAllEntities, after the loop over the calls
WithInterEdges(all, rels, configs) ==
  IF all.thrown THEN Thrown
  ELSE AllResult(all, calculateInterEdges(all.entities, rels, configs))

extractAllEntities(callList, configs, rels) ==
  WithInterEdges(ExtractCalls(ExtractState(<<>>, <<>>, <<>>), callList, configs),
                 rels, configs)

----------------------------------------------------------------------------
(* Path engine: inputs and specifications *)

\* not yet computed
NotRun == [run |-> FALSE]

\* the stores and the page take no part in a run of an engine function
PageIdle ==
  /\ callsStore = NotRun
  /\ mappingStore = NotRun
  /\ page = NotRun
  /\ history = NotRun

\* the characters path strings are drawn from: a letter, a digit, the
\* punctuation of the grammar, a blank and a character outside the grammar
PathAlphabet == {"a", "0", ".", "[", "]", "*", "$", " ", "#"}

PathStrings == UNION {[1..n -> PathAlphabet] : n \in 0..MaxPathLen}

constructorName == <<"c", "o", "n", "s", "t", "r", "u", "c", "t", "o", "r">>

\* the tokens compiled paths are drawn from
TokenAlphabet ==
  {ROOT, FIELD(<<"a">>), FIELD(<<"b">>), FIELD(constructorName), ALL_ITEMS,
   INDEX(0), INDEX(2)}

TokenSeqs == UNION {[1..n -> TokenAlphabet] : n \in 0..MaxTokens}

\* the JSON values paths are evaluated against
EvalValues ==
  {Null, Num(0), Num(5), Str(<<"a">>), Str(<<>>),
   Arr(1, <<>>),
   Arr(1, <<Num(1), Num(2), Num(3)>>),
   Obj(<<>>, <<>>),
   Obj(<<<<"a">>>>, <<Arr(1, <<Num(1), Num(2), Num(3)>>)>>),
   Obj(<<<<"a">>, <<"b">>>>, <<Obj(<<<<"b">>>>, <<Num(1)>>), Null>>),
   Obj(<<<<"b">>>>, <<Num(7)>>),
   Arr(1, <<Obj(<<<<"a">>>>, <<Num(1)>>), Arr(2, <<Num(4)>>),
            Obj(<<<<"a">>>>, <<Str(<<"b">>)>>)>>)}

InitParse ==
  /\ pc = "start"
  /\ pathStr \in PathStrings
  /\ parsed = NotRun
  /\ ast = <<>>
  /\ json = Undefined
  /\ matches = NotRun
  /\ calls = <<>>
  /\ entityConfigs = <<>>
  /\ relations = <<>>
  /\ result = NotRun
  /\ PageIdle

\* parsePath(pathStr)
ParsePath ==
  /\ pc = "start"
  /\ parsed' = parsePath(pathStr)
  /\ pc' = "parsed"
  /\ UNCHANGED <<pathStr, ast, json, matches, calls, entityConfigs, relations, result,
               pageVars>>

NextParse == ParsePath

SpecParse == InitParse /\ [][NextParse]_vars

InitEval ==
  /\ pc = "start"
  /\ pathStr = <<>>
  /\ parsed = NotRun
  /\ ast \in TokenSeqs
  /\ json \in EvalValues
  /\ matches = NotRun
  /\ calls = <<>>
  /\ entityConfigs = <<>>
  /\ relations = <<>>
  /\ result = NotRun
  /\ PageIdle

\* evaluatePath(json, ast) on a compiled path
EvaluatePath ==
  /\ pc = "start"
  /\ matches' = evaluateAst(json, ast)
  /\ pc' = "evaluated"
  /\ UNCHANGED <<pathStr, parsed, ast, json, calls, entityConfigs, relations, result,
               pageVars>>

NextEval == EvaluatePath

SpecEval == InitEval /\ [][NextEval]_vars

----------------------------------------------------------------------------
(* C8: parsePath raises on malformed input *)

GrammarChars == IdentChars \cup {"$", ".", "[", "]", "*"}

\* some '[' has no ']' after it
HasUnclosedBracket(s) ==
  \E i \in 1..Len(s) : s[i] = "[" /\ \A j \in (i + 1)..Len(s) : s[j] # "]"

\* some '[' is closed, and what it encloses is neither '*' nor digits
HasMalformedIndex(s) ==
  \E i \in 1..Len(s) : \E j \in (i + 1)..Len(s) :
    /\ s[i] = "["
    /\ s[j] = "]"
    /\ \A m \in (i + 1)..(j - 1) : s[m] # "]"
    /\ SubSeq(s, i + 1, j - 1) # <<"*">>
    /\ \/ j = i + 1
       \/ \E m \in (i + 1)..(j - 1) : s[m] \notin DigitChars

HasForeignChar(s) == \E i \in 1..Len(s) : s[i] \notin GrammarChars

\* the inputs the claim is about, judged on the trimmed text
Malformed(s) ==
  HasUnclosedBracket(Trim(s)) \/ HasMalformedIndex(Trim(s)) \/ HasForeignChar(Trim(s))

----------------------------------------------------------------------------
(* C9, C10: evaluatePath on values that do not fit the token *)

Front(s) == SubSeq(s, 1, Len(s) - 1)

\* the cases the specification lists as contributing no match
NoMatchCase(token, v) ==
  CASE token.type = "FIELD" -> v.k # "obj" \/ ~HasOwn(v, token.value)
    [] token.type = "INDEX" -> v.k # "arr" \/ token.index >= Len(v.items)
    [] token.type = "ALL_ITEMS" -> v.k # "arr"
    [] OTHER -> FALSE

\* every value the last token of ast is applied to is a no-match case
LastTokenCannotMatch ==
  /\ ast # <<>>
  /\ LET before == evaluateAst(json, Front(ast))
     IN ~before.thrown /\
        \A i \in 1..Len(before.value) :
          NoMatchCase(ast[Len(ast)], before.value[i].value)

\* C9: evaluatePath never raises, and a Field token on an array, a primitive,
\* null or an object lacking the key, an Index token out of range or on a
\* non-array, and an AllItems token on a non-array contribute zero matches.
C9_EvaluateNeverRaises ==
  pc = "evaluated" =>
    /\ ~matches.thrown
    /\ LastTokenCannotMatch => matches.value = <<>>

\* the part of C9 that concerns raising alone
EvaluateReturns == pc = "evaluated" => ~matches.thrown

\* walking a concrete path through own keys and existing indices only
RECURSIVE OwnWalk(_, _)
OwnWalk(v, path) ==
  IF path = <<>> THEN TRUE
  ELSE LET seg == Head(path)
       IN IF "s" \in DOMAIN seg
          THEN v.k = "obj" /\ HasOwn(v, seg.s)
                 /\ OwnWalk(OwnValue(v, seg.s), Tail(path))
          ELSE v.k = "arr" /\ seg.i < Len(v.items)
                 /\ OwnWalk(v.items[seg.i + 1], Tail(path))

\* C10: a Field token matches only on a non-array object that has the name
\* as its own key; inherited names such as "constructor" never match.
C10_FieldOwnKeyOnly ==
  (pc = "evaluated" /\ ~matches.thrown) =>
    \A i \in 1..Len(matches.value) : OwnWalk(json, matches.value[i].path)

----------------------------------------------------------------------------
(* Extraction: inputs and specification *)

\* most elements of the items array of a document
MaxItems == 2

\* most extraction rules of one call
MaxRules == 3

itemsName == <<"i", "t", "e", "m", "s">>

rootType == <<"r", "o", "o", "t">>

itemType == <<"i", "t", "e", "m">>

aType == <<"t", "a">>

bType == <<"t", "b">>

cType == <<"t", "c">>

callOne == <<"c", "1">>

callTwo == <<"c", "2">>

Rule(entity, path) == [entity |-> entity, path |-> path]

rootRule == Rule(rootType, <<"$">>)

itemRule == Rule(itemType, <<"$", ".", "i", "t", "e", "m", "s", "[", "*", "]">>)

aRule == Rule(aType, <<"a">>)

bRule == Rule(bType, <<"a", ".", "b">>)

cRule == Rule(cType, <<"$", ".", "a", ".", "b", ".", "c">>)

RulePool == {rootRule, itemRule, aRule, bRule, cRule}

\* the rule lists of a call: distinct rules of the pool, in any order
RuleLists ==
  {r \in UNION {[1..n -> RulePool] : n \in 1..MaxRules} :
     \A i, j \in 1..Len(r) : i # j => r[i] # r[j]}

Config(id, pk, displayField) ==
  [id |-> id, label |-> id, pk |-> pk, displayField |-> displayField]

DefaultConfigs ==
  <<Config(rootType, idName, idName), Config(itemType, idName, idName),
    Config(aType, idName, idName), Config(bType, idName, idName),
    Config(cType, idName, idName)>>

\* {id: 1, items: [{id: 10}, {id: 11}, ...]} with n items
ItemsDoc(n) ==
  Obj(<<idName, itemsName>>,
      <<Num(1), Arr(1, [i \in 1..n |-> Obj(<<idName>>, <<Num(9 + i)>>)])>>)

\* {id: 1, a: {id: 2, b: {id: 3, c: {id: 4}}}}
NestedDoc ==
  Obj(<<idName, <<"a">>>>,
      <<Num(1),
        Obj(<<idName, <<"b">>>>,
            <<Num(2),
              Obj(<<idName, <<"c">>>>,
                  <<Num(3), Obj(<<idName>>, <<Num(4)>>)>>)>>)>>)

\* {id: 1, items: [{id: 10}], a: {id: 2, b: {id: 3}}}
MixedDoc ==
  Obj(<<idName, itemsName, <<"a">>>>,
      <<Num(1), Arr(1, <<Obj(<<idName>>, <<Num(10)>>)>>),
        Obj(<<idName, <<"b">>>>, <<Num(2), Obj(<<idName>>, <<Num(3)>>)>>)>>)

ExtractDocs == {ItemsDoc(n) : n \in 0..MaxItems} \cup {NestedDoc, MixedDoc}

Call(id, doc, extractions) ==
  [id |-> id, name |-> id, parsedJson |-> doc, extractions |-> extractions]

InitExtract ==
  /\ pc = "start"
  /\ pathStr = <<>>
  /\ parsed = NotRun
  /\ ast = <<>>
  /\ json = Undefined
  /\ matches = NotRun
  /\ \E doc \in ExtractDocs, rules \in RuleLists : calls = <<Call(callOne, doc, rules)>>
  /\ entityConfigs = DefaultConfigs
  /\ relations = <<>>
  /\ result = NotRun
  /\ PageIdle

\* extractFromCall(call.id, call.parsedJson, call.extractions, entityConfigMap)
ExtractFromCall ==
  /\ pc = "start"
  /\ result' = extractFromCall(calls[1].id, calls[1].parsedJson,
                               calls[1].extractions, entityConfigs)
  /\ pc' = "extracted"
  /\ UNCHANGED <<pathStr, parsed, ast, json, matches, calls, entityConfigs, relations,
               pageVars>>

\* extractWithContext(call.parsedJson, call.extractions, entityConfigs)
ExtractWithContext ==
  /\ pc = "start"
  /\ result' = extractWithContext(calls[1].parsedJson, calls[1].extractions,
                                  entityConfigs)
  /\ pc' = "contexted"
  /\ UNCHANGED <<pathStr, parsed, ast, json, matches, calls, entityConfigs, relations,
               pageVars>>

NextExtract == ExtractFromCall \/ ExtractWithContext

SpecExtract == InitExtract /\ [][NextExtract]_vars

----------------------------------------------------------------------------
(* C1: root entity, item entities and the intra edges between them *)

RuleSet(extractions) == {extractions[i] : i \in 1..Len(extractions)}

\* the document is {id, items: [objects with id]} and the rules are the root
\* rule "$" and the item rule "$.items[*]"
RootAndItemsCase ==
  /\ RuleSet(calls[1].extractions) = {rootRule, itemRule}
  /\ calls[1].parsedJson \in {ItemsDoc(n) : n \in 0..(MaxItems + 1)}

ItemsOf(doc) == OwnValue(doc, itemsName).items

EntityId(type, v) == type \o <<"-">> \o ToStr(OwnValue(v, idName))

EdgePairs(edges) == {<<edges[i].source, edges[i].target>> : i \in 1..Len(edges)}

\* C1: for a document whose root is extracted by a rule "$" and whose array
\* elements are extracted by a rule "$.items[*]", extractFromCall returns one
\* root entity, one entity per element, and exactly one intra edge from the
\* root entity to each element entity.
C1_RootToItemEdges ==
  (pc = "extracted" /\ RootAndItemsCase) =>
    LET doc == calls[1].parsedJson
        items == ItemsOf(doc)
    IN /\ ~result.thrown
       /\ Len(result.entities) = 1 + Len(items)
       /\ result.entities[1].id = EntityId(rootType, doc)
       /\ \A i \in 1..Len(items) :
            result.entities[1 + i].id = EntityId(itemType, items[i])
       /\ Len(result.intraEdges) = Len(items)
       /\ EdgePairs(result.intraEdges) =
            {<<EntityId(rootType, doc), EntityId(itemType, items[i])>> :
               i \in 1..Len(items)}

----------------------------------------------------------------------------
(* C2: the parent is the nearest enclosing entity *)

\* the segments of a joined path key (no key of the documents holds a dot)
Segments(pathKey) == IF pathKey = <<>> THEN <<>> ELSE Split(pathKey, ".")

StrictPrefix(a, b) == Len(a) < Len(b) /\ SubSeq(b, 1, Len(a)) = a

\* the earlier entities of extractFromCall that enclose entity j
Enclosing(entities, j) ==
  {i \in 1..(j - 1) :
     StrictPrefix(Segments(entities[i].extractPath), Segments(entities[j].extractPath))}

Nearest(entities, cands) ==
  CHOOSE i \in cands :
    \A m \in cands : Len(Segments(entities[m].extractPath))
                       <= Len(Segments(entities[i].extractPath))

\* the earlier results of extractWithContext that enclose result j
EnclosingResults(results, j) ==
  {i \in 1..(j - 1) : StrictPrefix(results[i].extractPath, results[j].extractPath)}

NearestResult(results, cands) ==
  CHOOSE i \in cands :
    \A m \in cands : Len(results[m].extractPath) <= Len(results[i].extractPath)

\* C2: whenever several already-extracted entities of the document have
\* concrete paths that are strict prefixes of a new entity's concrete path,
\* extractFromCall and extractWithContext choose as parent the one with the
\* longest such prefix.
C2_NearestParent ==
  /\ (pc = "extracted" /\ ~result.thrown) =>
       \A j \in 1..Len(result.entities) :
         LET cands == Enclosing(result.entities, j)
         IN Cardinality(cands) >= 2 =>
              \A e \in 1..Len(result.intraEdges) :
                result.intraEdges[e].target = result.entities[j].id =>
                  result.intraEdges[e].source
                    = result.entities[Nearest(result.entities, cands)].id
  /\ (pc = "contexted" /\ ~result.thrown) =>
       \A j \in 1..Len(result.results) :
         LET cands == EnclosingResults(result.results, j)
         IN Cardinality(cands) >= 2 =>
              /\ result.results[j].parentEntity
                   = result.results[NearestResult(result.results, cands)].entity
              /\ result.results[j].parentPk
                   = result.results[NearestResult(result.results, cands)].pk

----------------------------------------------------------------------------
(* Merge: inputs and specification *)

\* most calls (documents) of the store
MaxCalls == 2

personType == <<"p", "e", "r", "s", "o", "n">>

orgType == <<"o", "r", "g">>

nameName == <<"n", "a", "m", "e">>

emailName == <<"e", "m", "a", "i", "l">>

tagsName == <<"t", "a", "g", "s">>

addrName == <<"a", "d", "d", "r">>

cityName == <<"c", "i", "t", "y">>

MergeConfigs == <<Config(personType, idName, nameName), Config(orgType, idName, idName)>>

\* the rule lists of a call: one rule, one node claimed by two entity types,
\* one node matched twice by the same entity type
MergeRuleLists ==
  {<<Rule(personType, <<"$">>)>>,
   <<Rule(personType, <<"$">>), Rule(orgType, <<"$">>)>>,
   <<Rule(personType, <<"$">>), Rule(personType, <<"$", ".">>)>>}

\* the documents of call number c; an array of call c is an object of its own
MergeDocs(c) ==
  <<Obj(<<idName, nameName>>, <<Num(1), Str(<<"A">>)>>),
    Obj(<<idName, nameName>>, <<Num(1), Str(<<"B">>)>>),
    Obj(<<idName, emailName>>, <<Str(<<"1">>), Str(<<"x">>)>>),
    Obj(<<idName, tagsName>>, <<Num(1), Arr(10 * c + 1, <<Num(1), Num(2)>>)>>),
    Obj(<<idName, addrName>>, <<Num(1), Obj(<<cityName>>, <<Str(<<"X">>)>>)>>),
    Obj(<<idName, addrName, nameName>>,
        <<Num(1), Obj(<<cityName>>, <<Str(<<"Y">>)>>), Str(<<"A">>)>>),
    Obj(<<idName, addrName>>, <<Num(1), Num(5)>>),
    Obj(<<idName, nameName>>, <<Num(2), Str(<<"A">>)>>),
    Obj(<<nameName>>, <<Str(<<"A">>)>>),
    Obj(<<idName, constructorName>>, <<Num(1), Str(<<"x">>)>>),
    Obj(<<idName, addrName>>, <<Num(1), Obj(<<constructorName>>, <<Str(<<"x">>)>>)>>)>>

CallId(c) == <<"c">> \o NumToStr(c)

\* the stores hold n calls, each with a document and its rules
CallLists(n) ==
  {[c \in 1..n |-> Call(CallId(c), MergeDocs(c)[d[c]], r[c])] :
     d \in [1..n -> 1..Len(MergeDocs(1))], r \in [1..n -> MergeRuleLists]}

InitMerge ==
  /\ pc = "start"
  /\ pathStr = <<>>
  /\ parsed = NotRun
  /\ ast = <<>>
  /\ json = Undefined
  /\ matches = NotRun
  /\ calls \in UNION {CallLists(n) : n \in 1..MaxCalls}
  /\ entityConfigs = MergeConfigs
  /\ relations = <<>>
  /\ result = NotRun
  /\ PageIdle

\* computeNodeMappings(calls, nodes)
ComputeNodeMappings ==
  /\ pc = "start"
  /\ result' = computeNodeMappings(calls, entityConfigs, EmptyObj)
  /\ pc' = "merged"
  /\ UNCHANGED <<pathStr, parsed, ast, json, matches, calls, entityConfigs, relations,
               pageVars>>

NextMerge == ComputeNodeMappings

SpecMerge == InitMerge /\ [][NextMerge]_vars

----------------------------------------------------------------------------
(* C3: one merged entity per (entityType, stringified primary key) *)

\* the values of result.mappings that are merged entities
MergedEntities ==
  {result.mappings[i].val : i \in
     {j \in 1..Len(result.mappings) : "sources" \in DOMAIN result.mappings[j].val}}

MatchesOf(c, r) == evaluatePath(calls[c].parsedJson, calls[c].extractions[r].path).value

PkOf(c, r, m) ==
  resolvePkValue(MatchesOf(c, r)[m].value,
                 OrId(ConfigOf(entityConfigs, calls[c].extractions[r].entity).pk))

\* the keyed instances: (call, rule, match) positions of objects with a key
KeyedInstances ==
  {<<c, r, m>> \in UNION {UNION {{<<c, r, m>> : m \in 1..Len(MatchesOf(c, r))} :
                                    r \in 1..Len(calls[c].extractions)} :
                            c \in 1..Len(calls)} :
     /\ MatchesOf(c, r)[m].value.k = "obj"
     /\ PkOf(c, r, m).k \notin {"undef", "null"}}

InstanceType(x) == calls[x[1]].extractions[x[2]].entity

InstanceKey(x) == ToStr(PkOf(x[1], x[2], x[3]))

InstanceNode(x) == NodeId(calls[x[1]].id, MatchesOf(x[1], x[2])[x[3]].path)

\* documents in order, then rules, then matches
Earlier(x, y) ==
  \/ x[1] < y[1]
  \/ x[1] = y[1] /\ x[2] < y[2]
  \/ x[1] = y[1] /\ x[2] = y[2] /\ x[3] < y[3]

GroupOf(x) ==
  {y \in KeyedInstances : InstanceType(y) = InstanceType(x) /\ InstanceKey(y) = InstanceKey(x)}

FirstOf(group) == CHOOSE x \in group : \A y \in group : y = x \/ Earlier(x, y)

\* the merged entities of the output that belong to the group of x
MergedFor(x) ==
  {e \in MergedEntities :
     /\ e.entityType = InstanceType(x)
     /\ ToStr(resolvePkValue(e.sources[1].data,
                             OrId(ConfigOf(entityConfigs, e.entityType).pk)))
          = InstanceKey(x)}

\* C3: for every (entityType, stringified primary key) of a keyed instance the
\* output holds exactly one merged entity, under the node id of the
\* first-encountered instance, and every other instance of the group is
\* redirected to that node id; 1 and "1" are the same key.
C3_OneMergedEntityPerGroup ==
  (pc = "merged" /\ ~result.thrown) =>
    \A x \in KeyedInstances :
      LET first == FirstOf(GroupOf(x))
      IN /\ Cardinality(MergedFor(x)) = 1
         /\ MapHas(result.mappings, InstanceNode(first))
         /\ MapGet(result.mappings, InstanceNode(first)) \in MergedFor(x)
         /\ \A y \in GroupOf(x) \ {first} :
              /\ MapHas(result.mergedNodes, InstanceNode(y))
              /\ MapGet(result.mergedNodes, InstanceNode(y)) = InstanceNode(first)

----------------------------------------------------------------------------
(* C4, C5, C6: conflicts, merged values and conflict records *)

\* the flattened leaves of a source object: [path, value] pairs
RECURSIVE Leaves(_, _)
Leaves(v, prefix) ==
  IF v.k = "obj"
  THEN UNION {Leaves(v.vals[i],
                     IF prefix = <<>> THEN v.keys[i] ELSE prefix \o <<".">> \o v.keys[i]) :
                i \in 1..Len(v.keys)}
  ELSE {[path |-> prefix, value |-> v]}

LeafPaths(e) == UNION {{l.path : l \in Leaves(e.sources[i].data, <<>>)} : i \in 1..Len(e.sources)}

\* the sources of e that define the leaf path p
Definers(e, p) ==
  {i \in 1..Len(e.sources) : \E l \in Leaves(e.sources[i].data, <<>>) : l.path = p}

LeafValue(data, p) == (CHOOSE l \in Leaves(data, <<>>) : l.path = p).value

\* a value without the identity of its arrays: its content
RECURSIVE Content(_)
Content(v) ==
  CASE v.k = "arr" -> [k |-> "arr", items |-> [i \in 1..Len(v.items) |-> Content(v.items[i])]]
    [] v.k = "obj" -> [k |-> "obj", keys |-> v.keys,
                       vals |-> [i \in 1..Len(v.vals) |-> Content(v.vals[i])]]
    [] OTHER -> v

\* the value held at a dotted path of the merged data, through own keys
RECURSIVE ValueAt(_, _)
ValueAt(v, parts) ==
  IF parts = <<>> THEN v
  ELSE IF v.k = "obj" /\ HasOwn(v, Head(parts))
    THEN ValueAt(OwnValue(v, Head(parts)), Tail(parts))
  ELSE Undefined

\* C4: a merged entity has a conflict entry for a flattened property path if
\* and only if its instances contributed at least two distinct values for the
\* path; equal values, arrays compared by content, give no entry.
C4_ConflictIffDistinctValues ==
  (pc = "merged" /\ ~result.thrown) =>
    \A e \in MergedEntities :
      /\ \A p \in LeafPaths(e) :
           MapHas(e.conflicts, p) <=>
             \E i, j \in Definers(e, p) :
               Content(LeafValue(e.sources[i].data, p))
                 # Content(LeafValue(e.sources[j].data, p))
      /\ \A c \in 1..Len(e.conflicts) : e.conflicts[c].key \in LeafPaths(e)

\* C5: after merging a group, mergedData holds at every flattened leaf path
\* defined by some instance the value of the last processed instance that
\* defines it; every such path is present.
C5_LastWriteWins ==
  (pc = "merged" /\ ~result.thrown) =>
    \A e \in MergedEntities :
      \A p \in LeafPaths(e) :
        LET last == CHOOSE i \in Definers(e, p) : \A j \in Definers(e, p) : j <= i
        IN ValueAt(e.data, Split(p, ".")) = LeafValue(e.sources[last].data, p)

\* the source indexes (from 0) that wrote a value at path p
Contributors(e, p) ==
  {MapGet(e.propertySources, p)[i].sourceIndex : i \in 1..Len(MapGet(e.propertySources, p))}

\* the source indexes the conflict records of path p name
NamedInConflict(e, p) ==
  {MapGet(e.conflicts, p)[i].sourceIndex : i \in 1..Len(MapGet(e.conflicts, p))}

----------------------------------------------------------------------------
(* Extraction engine: inputs and specification of extractAllEntities *)

clientType == <<"c", "l", "i", "e", "n", "t">>

invoiceType == <<"i", "n", "v", "o", "i", "c", "e">>

ghostType == <<"g", "h", "o", "s", "t">>

clientIdName == <<"c", "l", "i", "e", "n", "t", "_", "i", "d">>

refName == <<"r", "e", "f">>

clientsName == <<"c", "l", "i", "e", "n", "t", "s">>

invoicesName == <<"i", "n", "v", "o", "i", "c", "e", "s">>

codeName == <<"c", "o", "d", "e">>

EdgeConfigs ==
  <<Config(clientType, idName, idName), Config(invoiceType, idName, idName),
    Config(ghostType, idName, idName)>>

\* {clients: [{id: 1}], invoices: [{id: 7, client_id: 1}, {id: 8, client_id: 999}]}
ShopDoc ==
  Obj(<<clientsName, invoicesName>>,
      <<Arr(1, <<Obj(<<idName>>, <<Num(1)>>)>>),
        Arr(2, <<Obj(<<idName, clientIdName>>, <<Num(7), Num(1)>>),
                 Obj(<<idName, clientIdName>>, <<Num(8), Num(999)>>)>>)>>)

clientRule == Rule(clientType, <<"$">>)

invoiceRule == Rule(invoiceType, <<"$">>)

\* the documents with their extraction rules
EdgeCallPool ==
  << [doc |-> Obj(<<idName>>, <<Num(1)>>), rules |-> <<clientRule>>],
     [doc |-> Obj(<<idName>>, <<Num(2)>>), rules |-> <<clientRule>>],
     [doc |-> Obj(<<idName, clientIdName>>, <<Str(<<"1">>), Num(1)>>),
      rules |-> <<clientRule>>],
     [doc |-> Obj(<<idName, clientIdName>>, <<Num(1), Num(1)>>),
      rules |-> <<clientRule, invoiceRule>>],
     [doc |-> Obj(<<idName, clientIdName>>, <<Num(7), Num(1)>>), rules |-> <<invoiceRule>>],
     [doc |-> Obj(<<idName, clientIdName>>, <<Num(7), Str(<<"2">>)>>),
      rules |-> <<invoiceRule>>],
     [doc |-> Obj(<<idName, clientIdName>>, <<Num(8), Num(999)>>),
      rules |-> <<invoiceRule>>],
     [doc |-> Obj(<<idName, clientIdName, refName>>,
                  <<Num(9), Null, Obj(<<clientIdName>>, <<Num(1)>>)>>),
      rules |-> <<invoiceRule>>],
     [doc |-> ShopDoc,
      rules |-> <<Rule(clientType, clientsName \o <<"[", "*", "]">>),
                  Rule(invoiceType, invoicesName \o <<"[", "*", "]">>)>>],
     [doc |-> Obj(<<idName, codeName>>, <<Num(1), Num(5)>>), rules |-> <<clientRule>>],
     [doc |-> Obj(<<idName, clientIdName>>, <<Num(6), Num(5)>>),
      rules |-> <<invoiceRule>>] >>

EdgeCallLists(n) ==
  {[c \in 1..n |-> Call(CallId(c), EdgeCallPool[d[c]].doc, EdgeCallPool[d[c]].rules)] :
     d \in [1..n -> 1..Len(EdgeCallPool)]}

\* { from, to, toFk, fromPk } as addRelation stores it; <<>> is an absent path
Relation(from, to, toFk, fromPk) ==
  [from |-> from, to |-> to, toFk |-> toFk, fromPk |-> fromPk]

byClientId == Relation(clientType, invoiceType, clientIdName, <<>>)

byRef == Relation(clientType, invoiceType, refName \o <<".">> \o clientIdName, <<>>)

\* the same relation with the override path 'code' in the clients
byCode == Relation(clientType, invoiceType, clientIdName, codeName)

RelationLists ==
  { <<>>,
    <<byClientId>>,
    <<byRef>>,
    <<byClientId, byRef>>,
    <<byClientId, byClientId>>,
    <<Relation(clientType, invoiceType, <<>>, <<>>)>>,
    <<Relation(clientType, clientType, clientIdName, <<>>)>>,
    <<Relation(ghostType, invoiceType, clientIdName, <<>>)>>,
    <<byCode>>,
    <<Relation(clientType, invoiceType, constructorName, <<>>)>>,
    <<Relation(clientType, invoiceType, clientIdName \o <<"[">>, <<>>)>> }

InitEdges ==
  /\ pc = "start"
  /\ pathStr = <<>>
  /\ parsed = NotRun
  /\ ast = <<>>
  /\ json = Undefined
  /\ matches = NotRun
  /\ \E n \in 1..MaxCalls : calls \in EdgeCallLists(n)
  /\ entityConfigs = EdgeConfigs
  /\ relations \in RelationLists
  /\ result = NotRun
  /\ PageIdle

ExtractAllEntities ==
  /\ pc = "start"
  /\ pc' = "edged"
  /\ result' = extractAllEntities(calls, entityConfigs, relations)
  /\ UNCHANGED <<pathStr, parsed, ast, json, matches, calls, entityConfigs, relations,
               pageVars>>

NextEdges == ExtractAllEntities

SpecEdges == InitEdges /\ [][NextEdges]_vars

----------------------------------------------------------------------------
(* C7: inter edges *)

Entities == {result.entities[i] : i \in 1..Len(result.entities)}

InterPairs == EdgePairs(result.interEdges)

\* the relation links the instance F to the instance T
Links(r, F, T) ==
  LET fk == ValueAt(T.data, Split(r.toFk, "."))
  IN /\ r.toFk # <<>>
     /\ F.type = r.from
     /\ T.type = r.to
     /\ fk.k \notin {"undef", "null"}
     /\ ToStr(fk) = ToStr(F.pk)

\* C7: calculateInterEdges emits an edge from entity F to entity T if and
\* only if, for some relation (from, to, toFk), F has type from, T has type
\* to, the value at toFk in T's raw data is non-null and its string form
\* equals the string form of F's primary key; a foreign key that matches no
\* entity yields no edge, and only a relation whose toFk is not a path raises.
C7_InterEdgeIff ==
  pc = "edged" =>
    /\ result.thrown => \E i \in 1..Len(relations) : parsePath(relations[i].toFk).thrown
    /\ ~result.thrown =>
         /\ InterPairs \subseteq {<<F.id, T.id>> : F \in Entities, T \in Entities}
         /\ \A F \in Entities, T \in Entities :
              <<F.id, T.id>> \in InterPairs <=>
                \E G \in Entities, U \in Entities :
                  /\ G.id = F.id
                  /\ U.id = T.id
                  /\ \E i \in 1..Len(relations) : Links(relations[i], G, U)

\* client 1, invoice 7 with client_id 1 and invoice 8 with client_id 999:
\* exactly one edge, from client-1 to invoice-7, and no error
C7_Witness ==
  /\ pc = "edged"
  /\ Len(calls) = 1
  /\ calls[1].parsedJson = ShopDoc
  /\ relations = <<byClientId>>
  /\ ~result.thrown
  /\ Len(result.entities) = 3
  /\ Len(result.interEdges) = 1
  /\ result.interEdges[1].source = clientType \o <<"-", "1">>
  /\ result.interEdges[1].target = invoiceType \o <<"-", "7">>

----------------------------------------------------------------------------
(* Extraction engine: a corpus with malformed rule paths *)

\* the documents with their extraction rules, some with a path parsePath rejects
CorpusCallPool ==
  << [doc |-> Obj(<<idName>>, <<Num(1)>>), rules |-> <<clientRule>>],
     [doc |-> Obj(<<idName, clientIdName>>, <<Num(7), Num(1)>>), rules |-> <<invoiceRule>>],
     [doc |-> ShopDoc,
      rules |-> <<Rule(clientType, clientsName \o <<"[", "*", "]">>),
                  Rule(invoiceType, invoicesName \o <<"[", "*", "]">>)>>],
     [doc |-> ShopDoc,
      rules |-> <<Rule(clientType, clientsName \o <<"[", "*", "]">>),
                  Rule(invoiceType, invoicesName \o <<"[">>)>>],
     [doc |-> Obj(<<idName>>, <<Num(2)>>), rules |-> <<Rule(clientType, <<"$", "[">>)>>],
     [doc |-> Obj(<<idName, clientIdName>>, <<Num(8), Num(2)>>),
      rules |-> <<Rule(invoiceType, <<"a", "]">>), invoiceRule>>] >>

CorpusCallLists(n) ==
  {[c \in 1..n |-> Call(CallId(c), CorpusCallPool[d[c]].doc, CorpusCallPool[d[c]].rules)] :
     d \in [1..n -> 1..Len(CorpusCallPool)]}

InitCorpus ==
  /\ pc = "start"
  /\ pathStr = <<>>
  /\ parsed = NotRun
  /\ ast = <<>>
  /\ json = Undefined
  /\ matches = NotRun
  /\ \E n \in 1..MaxCalls : calls \in CorpusCallLists(n)
  /\ entityConfigs = EdgeConfigs
  /\ relations \in {<<>>, <<byClientId>>, <<byRef>>}
  /\ result = NotRun
  /\ PageIdle

SpecCorpus == InitCorpus /\ [][NextEdges]_vars

----------------------------------------------------------------------------
(* C11: a malformed rule does not block the corpus *)

WellFormedRule(rule) == ~parsePath(rule.path).thrown

\* the corpus without its malformed rules
WithoutMalformedRules(callList) ==
  [c \in 1..Len(callList) |->
     [callList[c] EXCEPT !.extractions = SelectSeq(@, WellFormedRule)]]

\* C11: a rule with a malformed path never blocks the rest of the corpus:
\* extractAllEntities returns, and returns the entities and edges of the other
\* rules of that document and of all other documents.
C11_MalformedRuleDoesNotBlock ==
  pc = "edged" =>
    /\ ~result.thrown
    /\ result = extractAllEntities(WithoutMalformedRules(calls), entityConfigs, relations)

----------------------------------------------------------------------------
(* Extraction: rules without a config and matches without a key *)

\* an object without the key field, and one whose key is null
keylessItems == <<Obj(<<nameName>>, <<Str(<<"x">>)>>), Obj(<<idName>>, <<Null>>)>>

\* {id: 1, items: [{id: 10}, ..., then the first k keyless objects]}
SkipDoc(n, k) ==
  Obj(<<idName, itemsName>>,
      <<Num(1),
        Arr(1, [i \in 1..n |-> Obj(<<idName>>, <<Num(9 + i)>>)] \o SubSeq(keylessItems, 1, k))>>)

SkipDocs == {SkipDoc(n, k) : n \in 0..MaxItems, k \in 0..Len(keylessItems)}

\* ghostType has no entry in DefaultConfigs
SkipRulePool ==
  {rootRule, itemRule, Rule(ghostType, <<"$">>), Rule(ghostType, itemRule.path)}

SkipRuleLists ==
  {r \in UNION {[1..n -> SkipRulePool] : n \in 1..MaxRules} :
     \A i, j \in 1..Len(r) : i # j => r[i] # r[j]}

InitSkip ==
  /\ pc = "start"
  /\ pathStr = <<>>
  /\ parsed = NotRun
  /\ ast = <<>>
  /\ json = Undefined
  /\ matches = NotRun
  /\ \E doc \in SkipDocs, rules \in SkipRuleLists : calls = <<Call(callOne, doc, rules)>>
  /\ entityConfigs = DefaultConfigs
  /\ relations = <<>>
  /\ result = NotRun
  /\ PageIdle

SpecSkip == InitSkip /\ [][NextExtract]_vars

----------------------------------------------------------------------------
(* C12: skipped rules and matches *)

HasKey(v) == v.k = "obj" /\ HasOwn(v, idName) /\ OwnValue(v, idName).k \notin {"undef", "null"}

\* the document without the items that have no key (they are the last items)
WithoutKeylessItems(doc) ==
  Obj(doc.keys,
      <<doc.vals[1], Arr(doc.vals[2].ref, SelectSeq(doc.vals[2].items, HasKey))>>)

\* the rule list without the rules whose entity type has no config
WithConfigOnly(rules) == SelectSeq(rules, LAMBDA r : HasConfig(entityConfigs, r.entity))

\* an entity without its raw data
EntityFacts(e) ==
  [id |-> e.id, type |-> e.type, pk |-> e.pk, label |-> e.label, callId |-> e.callId,
   extractPath |-> e.extractPath]

\* a result of extractWithContext without its raw data
ResultFacts(r) ==
  [entity |-> r.entity, pk |-> r.pk, path |-> r.path, extractPath |-> r.extractPath,
   parentEntity |-> r.parentEntity, parentPk |-> r.parentPk]

FactsOf(seq, Facts(_)) == [i \in 1..Len(seq) |-> Facts(seq[i])]

----------------------------------------------------------------------------
(* Identity merge engine: documents with keyless objects and arrays *)

\* rules that match the root object and rules that match an array
StandaloneRuleLists ==
  {<<Rule(personType, <<"$">>)>>,
   <<Rule(orgType, tagsName)>>,
   <<Rule(personType, <<"$">>), Rule(orgType, tagsName)>>,
   <<Rule(personType, <<"$">>), Rule(orgType, <<"$">>)>>}

\* {name: "A"}, {id: null, tags: [1, 2]}, {id: 1, tags: [1, 2]}, {id: 1, name: "A"}
StandaloneDocs(c) ==
  <<Obj(<<nameName>>, <<Str(<<"A">>)>>),
    Obj(<<idName, tagsName>>, <<Null, Arr(10 * c + 1, <<Num(1), Num(2)>>)>>),
    Obj(<<idName, tagsName>>, <<Num(1), Arr(10 * c + 1, <<Num(1), Num(2)>>)>>),
    Obj(<<idName, nameName>>, <<Num(1), Str(<<"A">>)>>)>>

StandaloneCallLists(n) ==
  {[c \in 1..n |-> Call(CallId(c), StandaloneDocs(c)[d[c]], r[c])] :
     d \in [1..n -> 1..Len(StandaloneDocs(1))], r \in [1..n -> StandaloneRuleLists]}

InitStandalone ==
  /\ pc = "start"
  /\ pathStr = <<>>
  /\ parsed = NotRun
  /\ ast = <<>>
  /\ json = Undefined
  /\ matches = NotRun
  /\ \E n \in 1..MaxCalls : calls \in StandaloneCallLists(n)
  /\ entityConfigs = MergeConfigs
  /\ relations = <<>>
  /\ result = NotRun
  /\ PageIdle

SpecStandalone == InitStandalone /\ [][NextMerge]_vars

----------------------------------------------------------------------------
(* C13: instances without a key are never merged *)

\* the (call, rule, match) positions of matched objects and arrays
Instances ==
  {x \in UNION {UNION {{<<c, r, m>> : m \in 1..Len(MatchesOf(c, r))} :
                         r \in 1..Len(calls[c].extractions)} :
                  c \in 1..Len(calls)} :
     Truthy(MatchesOf(x[1], x[2])[x[3]].value)
       /\ TypeofObject(MatchesOf(x[1], x[2])[x[3]].value)}

\* arrays, and objects whose primary key is null or undefined
KeylessInstances == Instances \ KeyedInstances

\* C13: an instance whose primary key is null or undefined, and every array
\* match, is never among the sources of a merged entity and has a standalone
\* mapping of its own: its entity type and its data under its node id.
C13_KeylessNeverMerged ==
  (pc = "merged" /\ ~result.thrown) =>
    \A x \in KeylessInstances :
      /\ \A e \in MergedEntities :
           e.entityType = InstanceType(x) =>
             \A i \in 1..Len(e.sources) : e.sources[i].nodeId # InstanceNode(x)
      /\ MapHas(result.mappings, InstanceNode(x))
      /\ "sources" \notin DOMAIN MapGet(result.mappings, InstanceNode(x))
      /\ MapGet(result.mappings, InstanceNode(x)).entityType = InstanceType(x)
      /\ MapGet(result.mappings, InstanceNode(x)).data = MatchesOf(x[1], x[2])[x[3]].value

----------------------------------------------------------------------------
(* resolvePkValue: inputs and specification *)

\* the objects {a?, b?}: a is absent, null, 0, 1, "" or "x"; b is absent, null,
\* 2, {c: 3} or {c: null}
PkObjects ==
  LET as == {<<>>} \cup {<<v>> : v \in {Null, Num(0), Num(1), Str(<<>>), Str(<<"x">>)}}
      bs == {<<>>} \cup {<<v>> : v \in {Null, Num(2), Obj(<<<<"c">>>>, <<Num(3)>>),
                                        Obj(<<<<"c">>>>, <<Null>>)}}
  IN {Obj((IF a = <<>> THEN <<>> ELSE <<<<"a">>>>) \o (IF b = <<>> THEN <<>> ELSE <<<<"b">>>>),
          a \o b) : a \in as, b \in bs}

\* single and composite key paths
PkFields ==
  { <<"a">>, <<"b", ".", "c">>, <<"a", "+", "b">>, <<"a", " ", "+", " ", "b">>,
    <<"a", "+", "b", ".", "c">>, <<"b", ".", "c", "+", "a">>, <<"a", "+", "b", "+", "a">>,
    <<"a", "+">>, <<"+">>, <<"a", "+", "z">> }

InitResolve ==
  /\ pc = "start"
  /\ pathStr \in PkFields
  /\ parsed = NotRun
  /\ ast = <<>>
  /\ json \in PkObjects
  /\ matches = NotRun
  /\ calls = <<>>
  /\ entityConfigs = <<>>
  /\ relations = <<>>
  /\ result = NotRun
  /\ PageIdle

ResolvePkValue ==
  /\ pc = "start"
  /\ pc' = "resolved"
  /\ result' = Returned(resolvePkValue(json, pathStr))
  /\ UNCHANGED <<pathStr, parsed, ast, json, matches, calls, entityConfigs, relations,
               pageVars>>

NextResolve == ResolvePkValue

SpecResolve == InitResolve /\ [][NextResolve]_vars

----------------------------------------------------------------------------
(* C14: composite keys *)

\* the component paths of a composite key path
Components(pkField) == [i \in 1..Len(Split(pkField, "+")) |-> Trim(Split(pkField, "+")[i])]

ComponentValue(obj, part) == ValueAt(obj, Split(part, "."))

\* C14: for a composite key path 'p1+p2+...' resolvePkValue returns the values
\* of the components joined with '|' when every component resolves to a
\* non-null value, and undefined when a component is undefined or null.
C14_CompositeKey ==
  (pc = "resolved" /\ IndexOf(pathStr, "+") # -1) =>
    LET parts == Components(pathStr)
    IN IF \A i \in 1..Len(parts) : ComponentValue(json, parts[i]).k \notin {"undef", "null"}
       THEN result.value =
              Str(Join([i \in 1..Len(parts) |-> ToStr(ComponentValue(json, parts[i]))],
                       <<"|">>))
       ELSE result.value = Undefined

\* {a: 1, b: {c: 3}} with the key path 'a+b.c' has the key "1|3"
C14_Witness ==
  /\ pc = "resolved"
  /\ pathStr = <<"a", "+", "b", ".", "c">>
  /\ json = Obj(<<<<"a">>, <<"b">>>>, <<Num(1), Obj(<<<<"c">>>>, <<Num(3)>>)>>)
  /\ result.value = Str(<<"1", "|", "3">>)

----------------------------------------------------------------------------
(* Extraction with composite primary key paths *)

\* {id: 1, name: "r", items: [{id: 10, name: "x"}, ...]} with n items
CompositeDoc(n) ==
  Obj(<<idName, nameName, itemsName>>,
      <<Num(1), Str(<<"r">>),
        Arr(1, [i \in 1..n |-> Obj(<<idName, nameName>>, <<Num(9 + i), Str(<<"x">>)>>)])>>)

\* 'id', 'id+name', 'id + name', 'name+id'
CompositePks ==
  {idName, idName \o <<"+">> \o nameName, idName \o <<" ", "+", " ">> \o nameName,
   nameName \o <<"+">> \o idName}

InitComposite ==
  /\ pc = "start"
  /\ pathStr = <<>>
  /\ parsed = NotRun
  /\ ast = <<>>
  /\ json = Undefined
  /\ matches = NotRun
  /\ \E n \in 0..MaxItems,
        rules \in {<<rootRule>>, <<itemRule>>, <<rootRule, itemRule>>, <<itemRule, rootRule>>} :
       calls = <<Call(callOne, CompositeDoc(n), rules)>>
  /\ \E pkRoot \in CompositePks, pkItem \in CompositePks :
       entityConfigs = <<Config(rootType, pkRoot, idName), Config(itemType, pkItem, idName)>>
  /\ relations = <<>>
  /\ result = NotRun
  /\ PageIdle

SpecComposite == InitComposite /\ [][NextExtract]_vars

----------------------------------------------------------------------------
(* C15: composite primary keys in extractFromCall *)

\* C15: with an entity config whose primary key path is composite,
\* extractFromCall does not raise, and for each matched object it returns the
\* entity keyed by the joined values of the component paths.
C15_CompositeKeyAccepted ==
  pc = "extracted" =>
    /\ ~result.thrown
    /\ \A r \in 1..Len(calls[1].extractions) :
         \A m \in 1..Len(MatchesOf(1, r)) :
           LET type == calls[1].extractions[r].entity
               match == MatchesOf(1, r)[m]
               key == resolvePkValue(match.value, ConfigOf(entityConfigs, type).pk)
           IN (match.value.k = "obj" /\ key.k \notin {"undef", "null"}) =>
                \E i \in 1..Len(result.entities) :
                  /\ result.entities[i].type = type
                  /\ result.entities[i].extractPath = PathKey(match.path)
                  /\ result.entities[i].pk = key
                  /\ result.entities[i].id = type \o <<"-">> \o ToStr(key)

----------------------------------------------------------------------------
(* Extraction of siblings whose path keys share a character prefix *)

abRule == Rule(aType, <<"a", "b">>)

abcRule == Rule(bType, <<"a", "b", "c">>)

\* {id: 1, ab: {id: 2}, abc: {id: 3}}
SiblingDoc ==
  Obj(<<idName, <<"a", "b">>, <<"a", "b", "c">>>>,
      <<Num(1), Obj(<<idName>>, <<Num(2)>>), Obj(<<idName>>, <<Num(3)>>)>>)

\* eleven items, so that items[1] and items[10] exist
ElevenDoc == ItemsDoc(11)

SiblingRuleLists ==
  {r \in UNION {[1..n -> {rootRule, itemRule, abRule, abcRule}] : n \in 1..MaxRules} :
     \A i, j \in 1..Len(r) : i # j => r[i] # r[j]}

InitSiblings ==
  /\ pc = "start"
  /\ pathStr = <<>>
  /\ parsed = NotRun
  /\ ast = <<>>
  /\ json = Undefined
  /\ matches = NotRun
  /\ \E doc \in {SiblingDoc, ElevenDoc}, rules \in SiblingRuleLists :
       calls = <<Call(callOne, doc, rules)>>
  /\ entityConfigs = DefaultConfigs
  /\ relations = <<>>
  /\ result = NotRun
  /\ PageIdle

SpecSiblings == InitSiblings /\ [][NextExtract]_vars

----------------------------------------------------------------------------
(* C16: parents are structural ancestors *)

\* C16: in extractWithContext every reported parent is a result whose
\* concrete path is a strict prefix, segment by segment, of the child's
\* concrete path.
C16_ParentIsAncestor ==
  (pc = "contexted" /\ ~result.thrown) =>
    \A j \in 1..Len(result.results) :
      result.results[j].parentEntity # NoParent =>
        \E i \in 1..Len(result.results) :
          /\ result.results[i].entity = result.results[j].parentEntity
          /\ result.results[i].pk = result.results[j].parentPk
          /\ StrictPrefix(result.results[i].extractPath, result.results[j].extractPath)

----------------------------------------------------------------------------
(* isParentPath: inputs and specification *)

\* '$', 'a', '$.a', 'a.b', '$.a.b', 'a.bc', 'a.b.c', 'a.b[*]', 'a.b[0]', 'a[*]', 'ab'
DeclaredPaths ==
  { <<"$">>, <<"a">>, <<"$", ".", "a">>, <<"a", ".", "b">>, <<"$", ".", "a", ".", "b">>,
    <<"a", ".", "b", "c">>, <<"a", ".", "b", ".", "c">>, <<"a", ".", "b", "[", "*", "]">>,
    <<"a", ".", "b", "[", "0", "]">>, <<"a", "[", "*", "]">>, <<"a", "b">> }

\* pathStr is pathA, json holds the string pathB
InitParent ==
  /\ pc = "start"
  /\ pathStr \in DeclaredPaths
  /\ parsed = NotRun
  /\ ast = <<>>
  /\ json \in {Str(p) : p \in DeclaredPaths}
  /\ matches = NotRun
  /\ calls = <<>>
  /\ entityConfigs = <<>>
  /\ relations = <<>>
  /\ result = NotRun
  /\ PageIdle

IsParentPath ==
  /\ pc = "start"
  /\ pc' = "compared"
  /\ result' = Returned(isParentPath(pathStr, json.s))
  /\ UNCHANGED <<pathStr, parsed, ast, json, matches, calls, entityConfigs, relations,
               pageVars>>

NextParent == IsParentPath

SpecParent == InitParent /\ [][NextParent]_vars

----------------------------------------------------------------------------
(* C17: isParentPath and the segment-wise prefix test *)

\* the segments a declared path denotes: its tokens without the root
DeclaredSegments(path) == SelectSeq(parsePath(path).value, LAMBDA t : t.type # "ROOT")

\* C17: isParentPath(A, B) is true exactly when A's segments are a strict
\* prefix of B's segments: false for a mere character prefix and false when A
\* and B denote the same path, the root included.
C17_ParentPathIsStrictPrefix ==
  pc = "compared" =>
    (result.value <=> StrictPrefix(DeclaredSegments(pathStr), DeclaredSegments(json.s)))

----------------------------------------------------------------------------
(* C18: propertySources *)

\* the contributions to path p, one per source that defines it, in order
RECURSIVE ContributionsFrom(_, _, _)
ContributionsFrom(e, p, i) ==
  IF i > Len(e.sources) THEN <<>>
  ELSE (IF i \in Definers(e, p)
        THEN <<[callId |-> e.sources[i].callId, callName |-> e.sources[i].callName,
                value |-> LeafValue(e.sources[i].data, p), sourceIndex |-> i - 1]>>
        ELSE <<>>) \o ContributionsFrom(e, p, i + 1)

\* C18: for every flattened property path of a merged entity propertySources
\* lists one contribution per instance that defines the path, in processing
\* order: the first occurrence starts the list and every later occurrence
\* appends to it, whether its value is equal or different.
C18_OneContributionPerInstance ==
  (pc = "merged" /\ ~result.thrown) =>
    \A e \in MergedEntities :
      /\ \A p \in LeafPaths(e) :
           /\ MapHas(e.propertySources, p)
           /\ MapGet(e.propertySources, p) = ContributionsFrom(e, p, 1)
      /\ \A c \in 1..Len(e.propertySources) : e.propertySources[c].key \in LeafPaths(e)

\* call 1 {id: 1, name: "A"} twice and call 2 {id: 1, name: "B"}: name has the
\* three contributions "A", "A", "B" of the sources 0, 1, 2
C18_Witness ==
  /\ pc = "merged"
  /\ Len(calls) = 2
  /\ calls[1].parsedJson = MergeDocs(1)[1]
  /\ calls[1].extractions = <<Rule(personType, <<"$">>), Rule(personType, <<"$", ".">>)>>
  /\ calls[2].parsedJson = MergeDocs(2)[2]
  /\ calls[2].extractions = <<Rule(personType, <<"$">>)>>
  /\ ~result.thrown
  /\ \E e \in MergedEntities :
       /\ Len(MapGet(e.propertySources, nameName)) = 3
       /\ [i \in 1..3 |-> MapGet(e.propertySources, nameName)[i].value]
            = <<Str(<<"A">>), Str(<<"A">>), Str(<<"B">>)>>
       /\ [i \in 1..3 |-> MapGet(e.propertySources, nameName)[i].sourceIndex] = <<0, 1, 2>>

----------------------------------------------------------------------------
(* C19: inter edges are not repeated *)

\* C19: the list returned by calculateInterEdges never holds two edges with
\* the same (source id, target id), even when several relations or several
\* duplicate instances of an entity compute the same pair.
C19_NoDuplicateInterEdges ==
  (pc = "edged" /\ ~result.thrown) =>
    \A i, j \in 1..Len(result.interEdges) :
      (result.interEdges[i].source = result.interEdges[j].source
         /\ result.interEdges[i].target = result.interEdges[j].target) => i = j

\* two calls with the same client 1 and invoice 1 (client_id 1) and the same
\* relation twice: the pair is computed four times and returned once
C19_Witness ==
  /\ pc = "edged"
  /\ Len(calls) = 2
  /\ \A c \in 1..2 :
       /\ calls[c].parsedJson = Obj(<<idName, clientIdName>>, <<Num(1), Num(1)>>)
       /\ calls[c].extractions = <<clientRule, invoiceRule>>
  /\ relations = <<byClientId, byClientId>>
  /\ ~result.thrown
  /\ Len(result.entities) = 4
  /\ Len(result.interEdges) = 1
  /\ result.interEdges[1].source = clientType \o <<"-", "1">>
  /\ result.interEdges[1].target = invoiceType \o <<"-", "1">>

----------------------------------------------------------------------------
(* Running the whole derivation twice *)

tagName == <<"t", "a", "g">>

\* the documents with their extraction rules; no path, key field or entity
\* type of these inputs names the property written under __proto__
RerunCallPool ==
  << [doc |-> Obj(<<idName>>, <<Num(1)>>), rules |-> <<clientRule>>],
     [doc |-> Obj(<<idName, nameName>>, <<Num(1), Str(<<"a">>)>>), rules |-> <<clientRule>>],
     [doc |-> Obj(<<idName, nameName>>, <<Num(1), Str(<<"b">>)>>), rules |-> <<clientRule>>],
     [doc |-> Obj(<<idName, clientIdName>>, <<Num(7), Num(1)>>), rules |-> <<invoiceRule>>],
     [doc |-> Obj(<<idName, protoName>>, <<Num(1), Obj(<<tagName>>, <<Num(1)>>)>>),
      rules |-> <<clientRule>>],
     [doc |-> Obj(<<idName, protoName>>, <<Num(1), Obj(<<tagName>>, <<Num(2)>>)>>),
      rules |-> <<clientRule>>],
     [doc |-> Obj(<<idName, tagName>>, <<Num(2), Num(5)>>), rules |-> <<clientRule>>],
     [doc |-> Obj(<<idName, itemsName>>,
                  <<Num(1), Arr(1, <<Obj(<<idName, clientIdName>>, <<Num(7), Num(1)>>)>>)>>),
      rules |-> <<clientRule, Rule(invoiceType, itemsName \o <<"[", "*", "]">>)>>] >>

RerunCallLists(n) ==
  {[c \in 1..n |-> Call(CallId(c), RerunCallPool[d[c]].doc, RerunCallPool[d[c]].rules)] :
     d \in [1..n -> 1..Len(RerunCallPool)]}

InitRerun ==
  /\ pc = "start"
  /\ pathStr = <<>>
  /\ parsed = NotRun
  /\ ast = <<>>
  /\ json = Undefined
  /\ matches = NotRun
  /\ \E n \in 1..MaxCalls : calls \in RerunCallLists(n)
  /\ entityConfigs = EdgeConfigs
  /\ relations \in {<<>>, <<byClientId>>}
  /\ result = NotRun
  /\ PageIdle

\* one run of extractAllEntities and computeNodeMappings on the stored calls,
\* entity configs and relations
RunOnce(callList, configs, rels, proto) ==
  [extracted |-> extractAllEntities(callList, configs, rels),
   merged |-> computeNodeMappings(callList, configs, proto)]

\* the first run, on a freshly loaded page
Run ==
  /\ pc = "start"
  /\ pc' = "ran"
  /\ result' = [first |-> RunOnce(calls, entityConfigs, relations, EmptyObj),
                second |-> NotRun]
  /\ UNCHANGED <<pathStr, parsed, ast, json, matches, calls, entityConfigs, relations,
               pageVars>>

\* the second run, on the same page, after the first one has returned
Rerun ==
  /\ pc = "ran"
  /\ ~result.first.merged.thrown
  /\ pc' = "reran"
  /\ result' = [first |-> result.first,
                second |-> RunOnce(calls, entityConfigs, relations,
                                   result.first.merged.proto)]
  /\ UNCHANGED <<pathStr, parsed, ast, json, matches, calls, entityConfigs, relations,
               pageVars>>

NextRerun == Run \/ Rerun

SpecRerun == InitRerun /\ [][NextRerun]_vars

SeqSet(seq) == {seq[i] : i \in 1..Len(seq)}

\* the conflicts of a merge result: (node id, property path, conflict record)
ConflictSet(merged) ==
  UNION { UNION { { <<merged.mappings[m].key, merged.mappings[m].val.conflicts[c].key, r>> :
                      r \in SeqSet(merged.mappings[m].val.conflicts[c].val) } :
                  c \in 1..Len(merged.mappings[m].val.conflicts) } :
          m \in { n \in 1..Len(merged.mappings) :
                    "conflicts" \in DOMAIN merged.mappings[n].val } }

\* the merged entities of a merge result: (node id, type, label, data)
MergedSet(merged) ==
  { <<merged.mappings[m].key, merged.mappings[m].val.entityType,
      merged.mappings[m].val.entityLabel, merged.mappings[m].val.data>> :
    m \in 1..Len(merged.mappings) }

\* what a run yields, its lists taken as sets
Outcome(run) ==
  [raised |-> <<run.extracted.thrown, run.merged.thrown>>,
   entities |-> IF run.extracted.thrown THEN {} ELSE SeqSet(run.extracted.entities),
   edges |-> IF run.extracted.thrown THEN {}
             ELSE SeqSet(run.extracted.intraEdges) \cup SeqSet(run.extracted.interEdges),
   mergedEntities |-> IF run.merged.thrown THEN {} ELSE MergedSet(run.merged),
   conflicts |-> IF run.merged.thrown THEN {} ELSE ConflictSet(run.merged)]

\* C20: running extraction, inter-edge derivation and merge twice on the same
\* documents, rules, entity configs and relations yields the same entity sets,
\* edge sets and conflict sets; nothing of the first run influences the second.
C20_RerunIdentical ==
  pc = "reran" => Outcome(result.second) = Outcome(result.first)

----------------------------------------------------------------------------
(* What a run leaves behind outside the structures it creates *)

\* the documents of call number c; an array of call c is an object of its own
FrameDocs(c) ==
  <<Obj(<<idName, nameName>>, <<Num(1), Str(<<"A">>)>>),
    Obj(<<idName, nameName>>, <<Num(1), Str(<<"B">>)>>),
    Obj(<<idName, tagName>>, <<Num(1), Arr(10 * c + 1, <<Num(1), Num(2)>>)>>),
    Obj(<<idName, protoName>>, <<Num(1), Obj(<<tagName>>, <<Num(1)>>)>>),
    Obj(<<idName, protoName>>, <<Num(1), Obj(<<tagName>>, <<Arr(10 * c + 2, <<>>)>>)>>),
    Obj(<<idName, tagName>>, <<Num(2), Num(5)>>),
    Obj(<<idName, clientIdName>>, <<Num(7), Num(1)>>),
    Obj(<<idName, itemsName>>,
        <<Num(1), Arr(10 * c + 3, <<Obj(<<idName, nameName>>, <<Num(1), Str(<<"C">>)>>)>>)>>)>>

FrameRules == <<clientRule, Rule(clientType, itemsName \o <<"[", "*", "]">>)>>

FrameCallLists(n) ==
  {[c \in 1..n |-> Call(CallId(c), FrameDocs(c)[d[c]], FrameRules)] :
     d \in [1..n -> 1..Len(FrameDocs(1))]}

InitFrame ==
  /\ pc = "start"
  /\ pathStr = <<>>
  /\ parsed = NotRun
  /\ ast = <<>>
  /\ json = Undefined
  /\ matches = NotRun
  /\ \E n \in 1..MaxCalls : calls \in FrameCallLists(n)
  /\ entityConfigs = EdgeConfigs
  /\ relations = <<byClientId>>
  /\ result = NotRun
  /\ PageIdle

SpecFrame == InitFrame /\ [][Run]_vars

\* the arrays held anywhere in a value, each with its identity and content
RECURSIVE ArraysIn(_)
ArraysIn(v) ==
  CASE v.k = "arr" -> {v} \cup UNION {ArraysIn(v.items[i]) : i \in 1..Len(v.items)}
    [] v.k = "obj" -> UNION {ArraysIn(v.vals[i]) : i \in 1..Len(v.vals)}
    [] OTHER -> {}

\* the arrays of the parsed documents, as they were before the run
DocumentArrays == UNION {ArraysIn(calls[c].parsedJson) : c \in 1..Len(calls)}

\* every array of a document that is reachable from Object.prototype after the
\* run has the content it had before
DocumentsUnchanged(proto) ==
  \A a \in DocumentArrays : \A b \in ArraysIn(proto) : b.ref = a.ref => b.items = a.items

\* C21: after extraction and merge have returned, every parsed document has the
\* content it had before the call, and all writes went to structures created
\* inside the call: no object that exists outside the call has been written.
C21_InputsUnchanged ==
  (pc = "ran" /\ ~result.first.extracted.thrown /\ ~result.first.merged.thrown) =>
    /\ result.first.merged.proto = EmptyObj
    /\ DocumentsUnchanged(result.first.merged.proto)

----------------------------------------------------------------------------
(* C22: AllItems on an array *)

\* the number of elements of the arrays among the first j matches
RECURSIVE ItemsBefore(_, _)
ItemsBefore(results, j) ==
  IF j = 0 THEN 0
  ELSE ItemsBefore(results, j - 1)
         + (IF IsArray(results[j].value) THEN Len(results[j].value.items) ELSE 0)

\* what a trailing AllItems token must yield from the matches of the tokens
\* before it: for each match that is an array, in order, one match per element
ExpandsArrays(before, after) ==
  /\ Len(after) = ItemsBefore(before, Len(before))
  /\ \A j \in 1..Len(before) :
       IsArray(before[j].value) =>
         \A i \in 0..(Len(before[j].value.items) - 1) :
           after[ItemsBefore(before, j - 1) + i + 1]
             = Match(before[j].value.items[i + 1], Append(before[j].path, IndexSeg(i)))

\* C22: evaluating an AllItems token on an array of n elements yields exactly
\* n matches in ascending index order, the i-th having the element at index i
\* as value and the parent's concrete path extended by i as path.
C22_AllItemsOnArray ==
  (pc = "evaluated" /\ ast # <<>> /\ ast[Len(ast)] = ALL_ITEMS
     /\ ~evaluateAst(json, Front(ast)).thrown) =>
    /\ ~matches.thrown
    /\ ExpandsArrays(evaluateAst(json, Front(ast)).value, matches.value)

\* {a: [1, 2, 3]} evaluated with a[*]: paths [a,0], [a,1], [a,2], values 1, 2, 3
C22_Witness ==
  /\ pc = "evaluated"
  /\ json = Obj(<<<<"a">>>>, <<Arr(1, <<Num(1), Num(2), Num(3)>>)>>)
  /\ ast = <<FIELD(<<"a">>), ALL_ITEMS>>
  /\ matches = Returned(<<Match(Num(1), <<FieldSeg(<<"a">>), IndexSeg(0)>>),
                          Match(Num(2), <<FieldSeg(<<"a">>), IndexSeg(1)>>),
                          Match(Num(3), <<FieldSeg(<<"a">>), IndexSeg(2)>>)>>)

----------------------------------------------------------------------------
(* The calls store, the mapping store and the page that listens to them *)

\* the number of store calls one behaviour makes, endBatch not counted
MaxOps == 4

MAX_PERSIST_JSON_SIZE == 100000

\* the JSON texts typed into a call: {, {"id":1} and {"id":2}
brokenText == <<"{">>

clientText == <<"{", "\"", "i", "d", "\"", ":", "1", "}">>

otherText == <<"{", "\"", "i", "d", "\"", ":", "2", "}">>

\* JSON.parse on the texts above: every other text of the model is not JSON
tryParseJson(jsonString) ==
  IF jsonString = <<>> \/ Trim(jsonString) = <<>> THEN [success |-> TRUE, data |-> Null]
  ELSE IF jsonString = clientText
    THEN [success |-> TRUE, data |-> Obj(<<idName>>, <<Num(1)>>)]
  ELSE IF jsonString = otherText
    THEN [success |-> TRUE, data |-> Obj(<<idName>>, <<Num(2)>>)]
  ELSE [success |-> FALSE, error |-> <<"S", "y", "n", "t", "a", "x", "E", "r", "r", "o", "r">>]

\* the value calls.set stores for a call
StoredCall(name, jsonString, extractions) ==
  LET parsedResult == tryParseJson(jsonString)
  IN [name |-> name,
      json |-> jsonString,
      extractions |-> extractions,
      parsedJson |-> IF parsedResult.success THEN parsedResult.data ELSE Null,
      parseError |-> IF parsedResult.success THEN Null ELSE Str(parsedResult.error)]

\* Map.prototype.delete
MapDelete(map, key) == SelectSeq(map, LAMBDA e : e.key # key)

\* calls.size > 0 ? calls.keys().next().value : null
FirstKey(map) == IF Len(map) > 0 THEN Str(map[1].key) ELSE Null

\* persist() of the calls store: what is written to localStorage
PersistedCalls(cs) ==
  [calls |-> [i \in 1..Len(cs.calls) |->
                [id |-> cs.calls[i].key,
                 name |-> cs.calls[i].val.name,
                 json |-> IF Len(cs.calls[i].val.json) > MAX_PERSIST_JSON_SIZE THEN <<>>
                          ELSE cs.calls[i].val.json,
                 extractions |-> cs.calls[i].val.extractions,
                 wasLarge |-> Len(cs.calls[i].val.json) > MAX_PERSIST_JSON_SIZE]],
   activeCallId |-> cs.activeCallId,
   callCounter |-> cs.callCounter]

\* getAllCalls(): the calls with their ids
getAllCalls(cs) ==
  [i \in 1..Len(cs.calls) |->
     [id |-> cs.calls[i].key, name |-> cs.calls[i].val.name,
      json |-> cs.calls[i].val.json, extractions |-> cs.calls[i].val.extractions,
      parsedJson |-> cs.calls[i].val.parsedJson,
      parseError |-> cs.calls[i].val.parseError]]

\* the part of the calls store the graph is computed from
GraphData(cs) ==
  [i \in 1..Len(cs.calls) |->
     [id |-> cs.calls[i].key, json |-> cs.calls[i].val.json,
      extractions |-> cs.calls[i].val.extractions]]

\* the listener the page registers on the calls store; a name update only
\* relabels nodes of the rendered graph
CallsListener(pg, eventType) ==
  IF eventType = "activeChanged" THEN pg
  ELSE IF eventType = "nameUpdated" THEN pg
  ELSE [pg EXCEPT !.rebuildDebounceTimer = TRUE]

\* notifyListeners(eventType) of the calls store, on the store
NotifiedCalls(cs, eventType) ==
  IF cs.batchMode THEN [cs EXCEPT !.batchDirty = TRUE, !.batchEventType = eventType]
  ELSE cs

\* the rest of a mutating method of the calls store, after it has changed the
\* store to `next`: persist(), notifyListeners(eventType) and the listener
CallsStoreCall(next, eventType, generated) ==
  /\ history.ops < MaxOps
  /\ callsStore' = NotifiedCalls(next, eventType)
  /\ page' = IF next.batchMode THEN [page EXCEPT !.callsStorage = PersistedCalls(next)]
             ELSE CallsListener([page EXCEPT !.callsStorage = PersistedCalls(next)],
                                eventType)
  /\ history' = [history EXCEPT
                   !.ops = @ + 1,
                   !.generated = @ + generated,
                   !.notified = IF next.batchMode THEN @ ELSE @ + 1,
                   !.mutated = @ \/ next.batchMode,
                   !.changes = IF GraphData(next) # GraphData(callsStore) THEN @ + 1 ELSE @]
  /\ UNCHANGED <<mappingStore, engineVars>>

\* a method that returns before it changes anything
NoEffect ==
  /\ history.ops < MaxOps
  /\ history' = [history EXCEPT !.ops = @ + 1]
  /\ UNCHANGED <<callsStore, mappingStore, page, engineVars>>

callPrefix == <<"c", "a", "l", "l", "-">>

importedId == <<"x">>

\* the ids a caller may pass: those of the calls in the store, and one more
CallIds == {callsStore.calls[i].key : i \in 1..Len(callsStore.calls)} \cup {importedId}

newName == <<"n">>

\* createCall(name, json = ''); generateCallId() gives an id never seen before
CreateCall ==
  \E name \in {<<>>, newName}, jsonString \in {<<>>, clientText} :
    LET callId == callPrefix \o NumToStr(history.generated + 1)
        callName == IF name # <<>> THEN name
                    ELSE <<"C", "a", "l", "l", " ">> \o NumToStr(callsStore.callCounter + 1)
        stored == MapSet(callsStore.calls, callId, StoredCall(callName, jsonString, <<>>))
    IN CallsStoreCall(
         [callsStore EXCEPT
            !.calls = stored,
            !.callCounter = IF name # <<>> THEN @ ELSE @ + 1,
            !.activeCallId = IF Len(stored) = 1 \/ @ = Null THEN Str(callId) ELSE @],
         "callCreated", 1)

\* updateJson(callId, json)
UpdateJson ==
  \E callId \in CallIds, jsonString \in {brokenText, clientText, otherText} :
    IF ~MapHas(callsStore.calls, callId) THEN NoEffect
    ELSE LET call == MapGet(callsStore.calls, callId)
         IN CallsStoreCall(
              [callsStore EXCEPT
                 !.calls = MapSet(@, callId,
                                  StoredCall(call.name, jsonString, call.extractions))],
              "jsonUpdated", 0)

\* updateName(callId, name)
UpdateName ==
  \E callId \in CallIds :
    IF ~MapHas(callsStore.calls, callId) THEN NoEffect
    ELSE CallsStoreCall(
           [callsStore EXCEPT
              !.calls = MapSet(@, callId, [MapGet(@, callId) EXCEPT !.name = newName])],
           "nameUpdated", 0)

\* updateExtractions(callId, extractions)
UpdateExtractions ==
  \E callId \in CallIds, extractions \in {<<>>, <<clientRule>>} :
    IF ~MapHas(callsStore.calls, callId) THEN NoEffect
    ELSE CallsStoreCall(
           [callsStore EXCEPT
              !.calls = MapSet(@, callId,
                               [MapGet(@, callId) EXCEPT !.extractions = extractions])],
           "extractionsUpdated", 0)

\* deleteCall(callId)
DeleteCall ==
  \E callId \in CallIds :
    IF ~MapHas(callsStore.calls, callId) THEN NoEffect
    ELSE LET left == MapDelete(callsStore.calls, callId)
         IN CallsStoreCall(
              [callsStore EXCEPT
                 !.calls = left,
                 !.activeCallId = IF @ = Str(callId) THEN FirstKey(left) ELSE @],
              "callDeleted", 0)

\* setActiveCall(callId)
SetActiveCall ==
  \E callId \in CallIds :
    IF ~MapHas(callsStore.calls, callId) THEN NoEffect
    ELSE CallsStoreCall([callsStore EXCEPT !.activeCallId = Str(callId)],
                        "activeChanged", 0)

\* clearAll()
ClearAll ==
  CallsStoreCall([callsStore EXCEPT !.calls = <<>>, !.activeCallId = Null,
                                    !.callCounter = 0],
                 "cleared", 0)

\* the files importData is given: { calls: [{ id, name, json, extractions }],
\* activeCallId }, the second field being absent from files of calls alone
ImportFiles ==
  LET one == <<[id |-> importedId, name |-> <<"X">>, json |-> clientText,
                extractions |-> <<clientRule>>]>>
  IN {[calls |-> <<>>, activeCallId |-> Null],
      [calls |-> one, activeCallId |-> Str(importedId)],
      [calls |-> one, activeCallId |-> Str(<<"g", "o", "n", "e">>)],
      [calls |-> one, activeCallId |-> Null],
      [calls |-> one, activeCallId |-> Undefined]}

\* the loop of importData over data.calls
RECURSIVE ImportCalls(_, _)
ImportCalls(map, list) ==
  IF list = <<>> THEN map
  ELSE ImportCalls(MapSet(map, Head(list).id,
                          StoredCall(Head(list).name, Head(list).json,
                                     Head(list).extractions)),
                   Tail(list))

\* importData(data)
ImportData ==
  \E data \in ImportFiles :
    LET stored == ImportCalls(<<>>, data.calls)
    IN CallsStoreCall(
         [callsStore EXCEPT
            !.calls = stored,
            !.callCounter = Len(data.calls),
            !.activeCallId =
               IF Truthy(data.activeCallId) /\ ~MapHas(stored, data.activeCallId.s)
               THEN FirstKey(stored) ELSE data.activeCallId],
         "imported", 0)

\* startBatch() of the calls store
StartBatch ==
  /\ history.ops < MaxOps
  /\ callsStore' = [callsStore EXCEPT !.batchMode = TRUE, !.batchDirty = FALSE]
  /\ history' = [history EXCEPT !.ops = @ + 1,
                                !.mutated = IF callsStore.batchMode THEN @ ELSE FALSE]
  /\ UNCHANGED <<mappingStore, page, engineVars>>

\* endBatch() of the calls store
EndBatch ==
  /\ callsStore' = [callsStore EXCEPT !.batchMode = FALSE, !.batchDirty = FALSE]
  /\ page' = IF callsStore.batchDirty THEN CallsListener(page, callsStore.batchEventType)
             ELSE page
  /\ history' = [history EXCEPT !.notified = IF callsStore.batchDirty THEN @ + 1 ELSE @]
  /\ UNCHANGED <<mappingStore, engineVars>>

\* the rest of a mutating method of the mapping store: persist(),
\* notifyListeners() and the listener the page registers, debouncedRebuildGraph
MappingStoreCall(next) ==
  /\ history.ops < MaxOps
  /\ mappingStore' = IF next.batchMode THEN [next EXCEPT !.batchDirty = TRUE] ELSE next
  /\ page' = [page EXCEPT
                !.mappingStorage = [entities |-> <<>>, relations |-> next.relations,
                                    colorIndex |-> 0],
                !.rebuildDebounceTimer = IF next.batchMode THEN @ ELSE TRUE]
  /\ history' = [history EXCEPT
                   !.ops = @ + 1,
                   !.mappingNotified = IF next.batchMode THEN @ ELSE @ + 1,
                   !.mappingMutated = @ \/ next.batchMode]
  /\ UNCHANGED <<callsStore, engineVars>>

\* addRelation(from, to, toFk, fromPk)
AddRelation ==
  \E rel \in {byClientId, byRef} :
    IF \E i \in 1..Len(mappingStore.relations) :
         /\ mappingStore.relations[i].from = rel.from
         /\ mappingStore.relations[i].to = rel.to
         /\ mappingStore.relations[i].toFk = rel.toFk
    THEN NoEffect
    ELSE MappingStoreCall([mappingStore EXCEPT !.relations = Append(@, rel)])

\* removeRelation(from, to): the first relation between the two types
RemoveRelation ==
  LET found == {i \in 1..Len(mappingStore.relations) :
                  /\ mappingStore.relations[i].from = clientType
                  /\ mappingStore.relations[i].to = invoiceType}
      index == CHOOSE i \in found : \A j \in found : i <= j
  IN IF found = {} THEN NoEffect
     ELSE MappingStoreCall(
            [mappingStore EXCEPT
               !.relations = SubSeq(@, 1, index - 1) \o SubSeq(@, index + 1, Len(@))])

\* startBatch() of the mapping store
MappingStartBatch ==
  /\ history.ops < MaxOps
  /\ mappingStore' = [mappingStore EXCEPT !.batchMode = TRUE, !.batchDirty = FALSE]
  /\ history' = [history EXCEPT
                   !.ops = @ + 1,
                   !.mappingMutated = IF mappingStore.batchMode THEN @ ELSE FALSE]
  /\ UNCHANGED <<callsStore, page, engineVars>>

\* endBatch() of the mapping store
MappingEndBatch ==
  /\ mappingStore' = [mappingStore EXCEPT !.batchMode = FALSE, !.batchDirty = FALSE]
  /\ page' = [page EXCEPT
                !.rebuildDebounceTimer = IF mappingStore.batchDirty THEN TRUE ELSE @]
  /\ history' = [history EXCEPT
                   !.mappingNotified = IF mappingStore.batchDirty THEN @ + 1 ELSE @]
  /\ UNCHANGED <<callsStore, engineVars>>

\* the debounce timer fires: rebuildGraph() reads the calls and the relations;
\* page.graph is what the run has read
TimerFires ==
  /\ page.rebuildDebounceTimer
  /\ page' = [page EXCEPT
                !.rebuildDebounceTimer = FALSE,
                !.graph = [calls |-> getAllCalls(callsStore),
                           relations |-> mappingStore.relations]]
  /\ history' = [history EXCEPT !.read = history.changes]
  /\ UNCHANGED <<callsStore, mappingStore, engineVars>>

\* the stores as createCallsStore and createMappingStore build them, and the
\* page with its listeners registered
InitPage ==
  /\ pc = "page"
  /\ pathStr = <<>>
  /\ parsed = NotRun
  /\ ast = <<>>
  /\ json = Undefined
  /\ matches = NotRun
  /\ calls = <<>>
  /\ entityConfigs = <<>>
  /\ relations = <<>>
  /\ result = NotRun
  /\ callsStore = [calls |-> <<>>, activeCallId |-> Null, callCounter |-> 0,
                   batchMode |-> FALSE, batchDirty |-> FALSE,
                   batchEventType |-> "change"]
  /\ mappingStore = [relations |-> <<>>, batchMode |-> FALSE, batchDirty |-> FALSE]
  /\ page = [rebuildDebounceTimer |-> FALSE,
             graph |-> [calls |-> <<>>, relations |-> <<>>],
             callsStorage |-> NotRun, mappingStorage |-> NotRun]
  /\ history = [ops |-> 0, generated |-> 0, notified |-> 0, mappingNotified |-> 0,
                mutated |-> FALSE, mappingMutated |-> FALSE, changes |-> 0, read |-> 0]

NextPage ==
  \/ CreateCall
  \/ UpdateJson
  \/ UpdateName
  \/ UpdateExtractions
  \/ DeleteCall
  \/ SetActiveCall
  \/ ClearAll
  \/ ImportData
  \/ StartBatch
  \/ EndBatch
  \/ AddRelation
  \/ RemoveRelation
  \/ MappingStartBatch
  \/ MappingEndBatch
  \/ TimerFires

SpecPage == InitPage /\ [][NextPage]_vars

\* the debounce timer, once set, fires, and a batch that was started is ended
\* (the handler that starts one ends it in a finally block)
SpecPageFair ==
  SpecPage /\ WF_vars(TimerFires) /\ WF_vars(EndBatch) /\ WF_vars(MappingEndBatch)

----------------------------------------------------------------------------
(* C23: a change of the calls is followed by a rebuild *)

\* C23: every change to a call's JSON or extraction rules made through the
\* calls store, directly or inside a startBatch/endBatch pair that also holds
\* setActiveCall or updateName, is eventually followed by a rebuildGraph run
\* that reads the changed state, the debounce timer being allowed to fire.
C23_ChangeEventuallyRebuilt ==
  \A n \in 1..MaxOps : (history.changes >= n) ~> (history.read >= n)

----------------------------------------------------------------------------
(* C24: batch mode *)

\* C24: in both stores no listener is invoked from startBatch until endBatch,
\* and endBatch invokes each listener exactly once if at least one mutation
\* happened since batch mode was entered, and not at all otherwise, also when
\* startBatch is called again before endBatch.
C24_BatchNotifiesOnce ==
  [][/\ (callsStore.batchMode /\ callsStore'.batchMode) =>
          history'.notified = history.notified
     /\ (callsStore.batchMode /\ ~callsStore'.batchMode) =>
          history'.notified = history.notified + (IF history.mutated THEN 1 ELSE 0)
     /\ (mappingStore.batchMode /\ mappingStore'.batchMode) =>
          history'.mappingNotified = history.mappingNotified
     /\ (mappingStore.batchMode /\ ~mappingStore'.batchMode) =>
          history'.mappingNotified
            = history.mappingNotified + (IF history.mappingMutated THEN 1 ELSE 0)]_vars

----------------------------------------------------------------------------
(* C29: the active call *)

\* C29: after any sequence of createCall, deleteCall, setActiveCall, clearAll
\* and importData, activeCallId is null when the store holds no call and
\* otherwise is the id of a call in the store.
C29_ActiveCallInStore ==
  pc = "page" =>
    IF callsStore.calls = <<>> THEN callsStore.activeCallId = Null
    ELSE /\ callsStore.activeCallId.k = "str"
         /\ MapHas(callsStore.calls, callsStore.activeCallId.s)

----------------------------------------------------------------------------
(* C25: rules are processed shallow-first *)

\* the place of the rule of an entity type in the declared list
RuleIndex(extractions, type) ==
  CHOOSE i \in 1..Len(extractions) : extractions[i].entity = type

\* pathDepth of the rule that produced an entity
RuleDepth(extractions, entity) ==
  getPathDepth(extractions[RuleIndex(extractions, entity.type)].path).value

\* every enclosing entity of entity j, wherever it stands in the list
EnclosingAnywhere(entities, j) ==
  {i \in 1..Len(entities) :
     StrictPrefix(Segments(entities[i].extractPath), Segments(entities[j].extractPath))}

\* the entities come out in ascending depth of their rules
ShallowFirst ==
  \A i, j \in 1..Len(result.entities) :
    i < j => RuleDepth(calls[1].extractions, result.entities[i])
               <= RuleDepth(calls[1].extractions, result.entities[j])

\* an entity whose parent rule is declared after its own rule has the intra
\* edge from its parent entity
LateParentHasEdge ==
  \A j \in 1..Len(result.entities) :
    LET cands == EnclosingAnywhere(result.entities, j)
    IN cands # {} =>
         LET p == Nearest(result.entities, cands)
         IN RuleIndex(calls[1].extractions, result.entities[p].type)
              > RuleIndex(calls[1].extractions, result.entities[j].type)
            => <<result.entities[p].id, result.entities[j].id>>
                 \in EdgePairs(result.intraEdges)

\* C25: extractFromCall processes the rules in ascending pathDepth whatever
\* the order of their declaration: the entities of a shallower rule are
\* registered before any match of a deeper rule, so a parent rule declared
\* after its child rule still yields the intra edge parent -> child.
C25_ShallowRulesFirst ==
  (pc = "extracted" /\ ~result.thrown) => (ShallowFirst /\ LateParentHasEdge)

----------------------------------------------------------------------------
(* C26: the primary-key path override of a relation *)

\* the value a foreign key is to be matched against in a "from" instance: the
\* value at the relation's fromPk path, or the primary key without an override
FromKey(r, F) ==
  IF r.fromPk # <<>> THEN ValueAt(F.data, Split(r.fromPk, ".")) ELSE F.pk

\* the relation links the instance F to the instance T through FromKey
LinksByOverride(r, F, T) ==
  LET fk == ValueAt(T.data, Split(r.toFk, "."))
  IN /\ r.toFk # <<>>
     /\ F.type = r.from
     /\ T.type = r.to
     /\ fk.k \notin {"undef", "null"}
     /\ FromKey(r, F).k \notin {"undef", "null"}
     /\ ToStr(fk) = ToStr(FromKey(r, F))

\* C26: when a relation names a primary-key path override (fromPk),
\* calculateInterEdges matches each foreign-key value against the value at
\* that path in the "from" entities, and against the entity's primary key only
\* when the relation names no override.
C26_OverrideIsMatched ==
  (pc = "edged" /\ ~result.thrown) =>
    \A F \in Entities, T \in Entities :
      <<F.id, T.id>> \in InterPairs <=>
        \E G \in Entities, U \in Entities :
          /\ G.id = F.id
          /\ U.id = T.id
          /\ \E i \in 1..Len(relations) : LinksByOverride(relations[i], G, U)

----------------------------------------------------------------------------
(* C27: redirected and canonical node ids *)

\* the keys of an insertion-ordered map
Keys(map) == {map[i].key : i \in 1..Len(map)}

\* the node ids under which a merge group is written to mappings
CanonicalIds ==
  {result.mappings[j].key : j \in
     {i \in 1..Len(result.mappings) : "sources" \in DOMAIN result.mappings[i].val}}

\* C27: in the output of computeNodeMappings no key of the duplicate ->
\* canonical map is the canonical id of a merge group, in particular no id
\* redirects to itself, and every redirect target is a key of the mappings,
\* also when the same JSON node is matched by more than one rule.
C27_RedirectedNeverCanonical ==
  (pc = "merged" /\ ~result.thrown) =>
    /\ Keys(result.mergedNodes) \cap CanonicalIds = {}
    /\ \A i \in 1..Len(result.mergedNodes) :
         /\ result.mergedNodes[i].key # result.mergedNodes[i].val
         /\ result.mergedNodes[i].val \in Keys(result.mappings)

----------------------------------------------------------------------------
(* evaluatePath and getPathDepth on the same path string *)

\* the characters of the path grammar
DepthAlphabet == {"a", "0", ".", "[", "]", "*", "$"}

DepthStrings == UNION {[1..n -> DepthAlphabet] : n \in 0..MaxPathLen}

\* {a: [{a: 1}, 2]}, [{a: [3]}, [4, 5]], {a: {a: {a: 6}}} and 5
DepthValues ==
  {Obj(<<<<"a">>>>, <<Arr(1, <<Obj(<<<<"a">>>>, <<Num(1)>>), Num(2)>>)>>),
   Arr(1, <<Obj(<<<<"a">>>>, <<Arr(2, <<Num(3)>>)>>), Arr(3, <<Num(4), Num(5)>>)>>),
   Obj(<<<<"a">>>>, <<Obj(<<<<"a">>>>, <<Obj(<<<<"a">>>>, <<Num(6)>>)>>)>>),
   Num(5)}

InitDepth ==
  /\ pc = "start"
  /\ pathStr \in DepthStrings
  /\ parsed = NotRun
  /\ ast = <<>>
  /\ json \in DepthValues
  /\ matches = NotRun
  /\ calls = <<>>
  /\ entityConfigs = <<>>
  /\ relations = <<>>
  /\ result = NotRun
  /\ PageIdle

\* evaluatePath(json, pathStr) on a path string
EvaluatePathString ==
  /\ pc = "start"
  /\ matches' = evaluatePath(json, pathStr)
  /\ pc' = "evaluated"
  /\ UNCHANGED <<pathStr, parsed, ast, json, calls, entityConfigs, relations, result,
               pageVars>>

\* getPathDepth(pathStr) on the same string
GetPathDepth ==
  /\ pc = "evaluated"
  /\ result' = getPathDepth(pathStr)
  /\ pc' = "measured"
  /\ UNCHANGED <<pathStr, parsed, ast, json, matches, calls, entityConfigs, relations,
               pageVars>>

NextDepth == EvaluatePathString \/ GetPathDepth

SpecDepth == InitDepth /\ [][NextDepth]_vars

----------------------------------------------------------------------------
(* C30: the length of a concrete path *)

\* C30: for every path string parsePath accepts and every JSON value, each
\* match returned by evaluatePath has a concrete path of exactly
\* getPathDepth(path) segments, so the entities of a shallower rule have
\* strictly shorter concrete paths than those of a deeper rule.
C30_ConcretePathHasDepthSegments ==
  (pc = "measured" /\ ~parsePath(pathStr).thrown) =>
    /\ ~matches.thrown
    /\ ~result.thrown
    /\ \A m \in 1..Len(matches.value) : Len(matches.value[m].path) = result.value

\* '$[*]' on [{a: [3]}, [4, 5]]: two matches with the paths [0] and [1], depth 1
C30_Witness ==
  /\ pc = "measured"
  /\ pathStr = <<"$", "[", "*", "]">>
  /\ json.k = "arr"
  /\ ~matches.thrown
  /\ Len(matches.value) = 2
  /\ matches.value[1].path = <<IndexSeg(0)>>
  /\ matches.value[2].path = <<IndexSeg(1)>>
  /\ result = Returned(1)

----------------------------------------------------------------------------
(* Merge of documents under a composite key *)

\* {a: 'x|y', b: 'z'}, {a: 'x', b: 'y|z'}, {a: 'x', b: 'z'}, {a: 'x', b: 'y'},
\* {a: 'x'} and {a: 'y', b: 'z'}
KeyDocs ==
  <<Obj(<<<<"a">>, <<"b">>>>, <<Str(<<"x", "|", "y">>), Str(<<"z">>)>>),
    Obj(<<<<"a">>, <<"b">>>>, <<Str(<<"x">>), Str(<<"y", "|", "z">>)>>),
    Obj(<<<<"a">>, <<"b">>>>, <<Str(<<"x">>), Str(<<"z">>)>>),
    Obj(<<<<"a">>, <<"b">>>>, <<Str(<<"x">>), Str(<<"y">>)>>),
    Obj(<<<<"a">>>>, <<Str(<<"x">>)>>),
    Obj(<<<<"a">>, <<"b">>>>, <<Str(<<"y">>), Str(<<"z">>)>>)>>

\* 'a+b', 'b+a', 'a + b' and 'a+b+a'
KeyPks ==
  {<<"a", "+", "b">>, <<"b", "+", "a">>, <<"a", " ", "+", " ", "b">>,
   <<"a", "+", "b", "+", "a">>}

KeyCallLists(n) ==
  {[c \in 1..n |-> Call(CallId(c), KeyDocs[d[c]], <<Rule(personType, <<"$">>)>>)] :
     d \in [1..n -> 1..Len(KeyDocs)]}

InitKeys ==
  /\ pc = "start"
  /\ pathStr = <<>>
  /\ parsed = NotRun
  /\ ast = <<>>
  /\ json = Undefined
  /\ matches = NotRun
  /\ calls \in UNION {KeyCallLists(n) : n \in 1..MaxCalls}
  /\ \E pk \in KeyPks : entityConfigs = <<Config(personType, pk, <<"a">>)>>
  /\ relations = <<>>
  /\ result = NotRun
  /\ PageIdle

SpecKeys == InitKeys /\ [][ComputeNodeMappings]_vars

----------------------------------------------------------------------------
(* C28: composite keys of different tuples *)

\* every component of the key path has a value in the document
HasKeyTuple(doc, pkField) ==
  \A i \in 1..Len(Components(pkField)) :
    ComponentValue(doc, Components(pkField)[i]).k \notin {"undef", "null"}

\* the tuple of the key component values, each as a string
KeyTuple(doc, pkField) ==
  [i \in 1..Len(Components(pkField)) |->
     ToStr(ComponentValue(doc, Components(pkField)[i]))]

\* the roots of the two calls are sources of one merged entity
InOneGroup(c, d) ==
  \E e \in MergedEntities :
    /\ \E i \in 1..Len(e.sources) : e.sources[i].nodeId = NodeId(calls[c].id, <<>>)
    /\ \E i \in 1..Len(e.sources) : e.sources[i].nodeId = NodeId(calls[d].id, <<>>)

\* C28: composite key resolution is injective within an entity type: two
\* objects whose tuples of key component values differ never get the same
\* resolved key from resolvePkValue, and so never land in one merge group.
C28_CompositeKeyInjective ==
  (pc = "merged" /\ ~result.thrown) =>
    LET pk == entityConfigs[1].pk
    IN \A c, d \in 1..Len(calls) :
         (/\ HasKeyTuple(calls[c].parsedJson, pk)
          /\ HasKeyTuple(calls[d].parsedJson, pk)
          /\ KeyTuple(calls[c].parsedJson, pk) # KeyTuple(calls[d].parsedJson, pk))
         => /\ resolvePkValue(calls[c].parsedJson, pk)
                 # resolvePkValue(calls[d].parsedJson, pk)
            /\ ~InOneGroup(c, d)

====
